---- MODULE Spec2Model ----
(***************************************************************************)
(* Frame synchronisation of the RDP GDI callbacks (src/protocols/rdp/gdi.c) *)
(* as a state machine: the paint burst (begin-paint / end-paint), the      *)
(* desktop resize, the frame markers, and the render thread that consumes  *)
(* the default layer.                                                      *)
(***************************************************************************)
EXTENDS Integers, Sequences, FiniteSets, TLC

(***************************************************************************)
(* Bounds of the model and program constants.                              *)
(***************************************************************************)

\* Most frame-ready notifications that may be pending at the render thread.
MaxFrames == 1

\* Engine buffer handles; 0 is the null handle.
Buffers == {1, 2}

\* Frame identifiers a surface frame marker may carry.
FrameIds == {1, 2}

\* limits.h INT_MAX as used by the assertion of end-paint.
INT_MAX == 2147483647

INT_MIN == (-INT_MAX) - 1

\* FRAME_MARKER_ORDER.action value that guac_rdp_gdi_frame_marker compares to.
FRAME_START == 0

\* SURFACE_FRAME_MARKER.frameAction value that the surface handler compares to.
SURFACECMD_FRAMEACTION_END == 1

\* Action codes an engine marker may carry: start, end, and one other value.
FrameActions == {0, 1, 2}

NULL == "NULL"

\* The one raw context of the default layer (open_raw returns a pointer to it).
CTX == "ctx"

(***************************************************************************)
(* guac_rect: [left, right) x [top, bottom), signed 32-bit edges.          *)
(***************************************************************************)

Min(a, b) == IF a < b THEN a ELSE b

Max(a, b) == IF a > b THEN a ELSE b

EmptyRect == [left |-> 0, top |-> 0, right |-> 0, bottom |-> 0]

guac_rect_is_empty(r) == r.right <= r.left \/ r.bottom <= r.top

\* x + w for w >= 0 without leaving the signed 32-bit range (saturating).
SatAdd(x, w) == IF x > INT_MAX - w THEN INT_MAX ELSE x + w

guac_rect_init(x, y, w, h) ==
    [left |-> x, top |-> y, right |-> SatAdd(x, w), bottom |-> SatAdd(y, h)]

guac_rect_constrain(r, max) ==
    LET c == [left   |-> Max(r.left, max.left),
              top    |-> Max(r.top, max.top),
              right  |-> Min(r.right, max.right),
              bottom |-> Min(r.bottom, max.bottom)]
    IN IF guac_rect_is_empty(c) THEN EmptyRect ELSE c

guac_rect_extend(r, min) ==
    IF guac_rect_is_empty(min) THEN r
    ELSE IF guac_rect_is_empty(r) THEN min
    ELSE [left   |-> Min(r.left, min.left),
          top    |-> Min(r.top, min.top),
          right  |-> Max(r.right, min.right),
          bottom |-> Max(r.bottom, min.bottom)]

(***************************************************************************)
(* State.                                                                  *)
(***************************************************************************)
VARIABLES
    pre38,            \* TRUE: built against FreeRDP earlier than 3.8.0
    settings,         \* [FrameAcknowledge]
    aborted,          \* "none", or the handler whose GUAC_ASSERT failed
    current_context,  \* rdp_client->current_context: NULL or CTX
    gdi_modified,     \* rdp_client->gdi_modified
    gdi,              \* the engine's rdpGdi: geometry, buffer, invalid region
    ctx,              \* the default layer's raw context: buffer, stride, bounds, dirty
    layer,            \* the default layer: size, buffer, committed dirty, open count, reader
    frames,           \* frame-ready notifications pending at the render thread
    peak,             \* most raw contexts ever open at once on the layer
    last,             \* the handler that ran last and what it called
    feed,             \* scripted engine: [all, pending] regions to invalidate once each
    track,            \* the frame boundary tracker and the counts of a marker stream
    disp,             \* rdp_client->disp->monitors: one record per monitor, index 0 first
    copilot,          \* the guac_copilot: context, workflow registry, recording
    camera,           \* rdp_client->camera: NULL, or the camera module
    reply             \* the copilot or camera call made last: result, messages, writes

vars == <<pre38, settings, aborted, current_context, gdi_modified, gdi, ctx,
          layer, frames, peak, last, feed, track, disp, copilot, camera, reply>>

\* What one handler call did: counted from its entry.
ZeroEv == [opens |-> 0, closes |-> 0, notifies |-> 0, merged |-> <<>>,
           committed |-> <<>>, acks |-> <<>>, retval |-> TRUE, calls |-> <<>>,
           requested |-> <<>>, layout |-> <<>>, layout_ok |-> TRUE]

\* The whole program state as one value, so that handlers compose as functions.
M == [pre38 |-> pre38, settings |-> settings, aborted |-> aborted,
      current_context |-> current_context, gdi_modified |-> gdi_modified,
      gdi |-> gdi, ctx |-> ctx, layer |-> layer, frames |-> frames,
      peak |-> peak, disp |-> disp, ev |-> ZeroEv]

\* GUAC_ASSERT failing in handler `where`: the process aborts there.
Abort(m, where) == [m EXCEPT !.aborted = where]

\* A step of desktop-resize has completed: its name, and how many raw
\* contexts are open on the layer once it has.
Step(m, name) == [m EXCEPT !.ev.calls = Append(@, <<name, m.layer.open>>)]

(***************************************************************************)
(* The monitor layout as JSON text. Text is a sequence of characters, and  *)
(* snprintf writes at most what the space it is given holds.               *)
(***************************************************************************)

Monitor(left, top, width, height) ==
    [left_offset |-> left, top_offset |-> top,
     requested_width |-> width, requested_height |-> height]

Digits == <<"0", "1", "2", "3", "4", "5", "6", "7", "8", "9">>

RECURSIVE DecNat(_)
\* %d of a number from 0 to INT_MAX.
DecNat(n) == IF n < 10 THEN <<Digits[n + 1]>>
             ELSE DecNat(n \div 10) \o <<Digits[(n % 10) + 1]>>

\* %d of a 32-bit int: a minus sign and the digits of its magnitude, which
\* for INT_MIN is above INT_MAX and is taken digit by digit.
Dec(n) ==
    IF n >= 0 THEN DecNat(n)
    ELSE LET d == (10 - (n % 10)) % 10
             q == -((n + d) \div 10)
         IN <<"-">> \o (IF q = 0 THEN <<>> ELSE DecNat(q)) \o <<Digits[d + 1]>>

\* "%d":{"left":%d,"top":%d,"width":%d,"height":%d}
MonitorEntry(i, mon) ==
    <<"\"">> \o Dec(i) \o <<"\"", ":", "{", "\"", "l", "e", "f", "t", "\"", ":">>
    \o Dec(mon.left_offset) \o <<",", "\"", "t", "o", "p", "\"", ":">>
    \o Dec(mon.top_offset) \o <<",", "\"", "w", "i", "d", "t", "h", "\"", ":">>
    \o Dec(mon.requested_width) \o <<",", "\"", "h", "e", "i", "g", "h", "t", "\"", ":">>
    \o Dec(mon.requested_height) \o <<"}">>

\* pos += snprintf(json + pos, buffer_size - pos, text): the text is cut to
\* the space left less the terminator, the offset moves by the whole length.
\* ok: every write so far began below the capacity and was written in full.
snprintf(b, text) ==
    LET room == b.buffer_size - b.pos
        kept == IF room <= 0 THEN 0 ELSE Min(Len(text), room - 1)
    IN [b EXCEPT !.json = @ \o SubSeq(text, 1, kept),
                 !.pos = @ + Len(text),
                 !.ok = @ /\ b.pos < b.buffer_size /\ Len(text) < room]

RECURSIVE layout_loop(_, _, _, _, _, _)
\* The loop of the serializer from monitor i on (0-based). skip: monitors
\* with a zero width or height are left out; reserve: the room below which
\* the buffer is doubled.
layout_loop(monitors, i, b, first, skip, reserve) ==
    IF i >= Len(monitors) THEN b
    ELSE LET mon == monitors[i + 1]
         IN IF skip /\ (mon.requested_width = 0 \/ mon.requested_height = 0)
            THEN layout_loop(monitors, i + 1, b, first, skip, reserve)
            ELSE LET sep == IF first THEN b ELSE snprintf(b, <<",">>)
                     grown == IF sep.pos >= sep.buffer_size - reserve
                              THEN [sep EXCEPT !.buffer_size = @ * 2]
                              ELSE sep
                 IN layout_loop(monitors, i + 1, snprintf(grown, MonitorEntry(i, mon)),
                                FALSE, skip, reserve)

layout_json_body(monitors, size, skip, reserve) ==
    LET start == [buffer_size |-> size, pos |-> 0,
                  json |-> <<>>, ok |-> TRUE]
        body == layout_loop(monitors, 0, snprintf(start, <<"{">>), TRUE, skip, reserve)
    IN snprintf(body, <<"}">>)

\* Mutant: monitors that were never initialized are serialized too.
layout_json_no_skip(monitors) ==
    layout_json_body(monitors, 100 + Len(monitors) * 120, FALSE, 100)

\* Mutant: a buffer of 20 bytes to begin with, doubled when 10 remain.
layout_json_small_buffer(monitors) == layout_json_body(monitors, 20, TRUE, 10)

\* Mutant: the text of the previous desktop-resize is still in the buffer
\* and is sent again.
layout_json_carries_over(monitors) ==
    LET fresh == layout_json_body(monitors, 100 + Len(monitors) * 120, TRUE, 100)
    IN IF last.ev.layout = <<>> THEN fresh
       ELSE [fresh EXCEPT !.json = last.ev.layout, !.pos = Len(last.ev.layout)]

\* The buffer the serializer returns: its text, its capacity, the offset
\* after the last write.
guac_rdp_build_monitor_layout_json(monitors) ==
    LET start == [buffer_size |-> 100 + Len(monitors) * 120, pos |-> 0,
                  json |-> <<>>, ok |-> TRUE]
        body == layout_loop(monitors, 0, snprintf(start, <<"{">>), TRUE, TRUE, 100)
    IN snprintf(body, <<"}">>)

(***************************************************************************)
(* UINT32 settings. A value is held as its top bit and its low 31 bits,    *)
(* hi * 2^31 + lo, so that the values above INT_MAX can be written.        *)
(***************************************************************************)

U32(hi, lo) == [hi |-> hi, lo |-> lo]

U32IsZero(u) == u.hi = 0 /\ u.lo = 0

\* The value of a UINT32 once stored in an int: values above INT_MAX wrap
\* to the negative numbers.
UInt32ToInt(u) == IF u.hi = 0 THEN u.lo ELSE (u.lo - INT_MAX) - 1

(***************************************************************************)
(* libguac display layer (declared in guacamole/display.h).                *)
(***************************************************************************)

\* Acquire the layer's raw context. The first acquisition starts from the
\* layer's buffer details with an empty dirty rectangle; a nested acquisition
\* hands out the same context.
guac_display_layer_open_raw(m) ==
    [m EXCEPT !.layer.open = @ + 1,
              !.peak = Max(@, m.layer.open + 1),
              !.ev.opens = @ + 1,
              !.ctx = IF m.layer.open = 0
                      THEN [buffer |-> m.layer.buffer, stride |-> m.layer.stride,
                            bounds |-> guac_rect_init(0, 0, m.layer.width, m.layer.height),
                            dirty |-> EmptyRect]
                      ELSE @]

\* Release the raw context: commit its dirty rectangle and buffer details into
\* the layer and clear the transient accumulator.
guac_display_layer_close_raw(m) ==
    [m EXCEPT !.layer.open = @ - 1,
              !.layer.dirty = guac_rect_extend(@, m.ctx.dirty),
              !.layer.buffer = m.ctx.buffer,
              !.layer.stride = m.ctx.stride,
              !.ctx.dirty = EmptyRect,
              !.ev.closes = @ + 1,
              !.ev.committed = Append(@, m.ctx.dirty)]

guac_display_layer_resize(m, width, height) ==
    [m EXCEPT !.layer.width = width, !.layer.height = height]

guac_display_render_thread_notify_frame(m) ==
    [m EXCEPT !.frames = @ + 1, !.ev.notifies = @ + 1]

(***************************************************************************)
(* The GDI callbacks of src/protocols/rdp/gdi.c.                           *)
(***************************************************************************)

\* Mutant: the frame is announced whether it is starting or ending.
mark_frame_always(m, starting) ==
    guac_display_render_thread_notify_frame(m)

guac_rdp_gdi_mark_frame(m, starting) ==
    IF ~starting THEN guac_display_render_thread_notify_frame(m) ELSE m

guac_rdp_gdi_frame_marker(m, action) ==
    guac_rdp_gdi_mark_frame(m, action = FRAME_START)

\* Mutant: the exclusivity assertion is missing.
begin_paint_no_assert(m) ==
    LET o == guac_display_layer_open_raw(m)
    IN [o EXCEPT !.current_context = CTX,
                 !.ctx.buffer = o.gdi.primary_buffer,
                 !.ctx.stride = o.gdi.stride,
                 !.ctx.bounds = guac_rect_init(0, 0, o.gdi.width, o.gdi.height)]

\* Mutant: the context is used without being acquired from the layer.
begin_paint_no_open(m) ==
    IF m.current_context # NULL THEN Abort(m, "begin_paint")
    ELSE [m EXCEPT !.current_context = CTX,
                   !.ctx.buffer = m.gdi.primary_buffer,
                   !.ctx.stride = m.gdi.stride,
                   !.ctx.bounds = guac_rect_init(0, 0, m.gdi.width, m.gdi.height)]

guac_rdp_gdi_begin_paint(m) ==
    IF m.current_context # NULL THEN Abort(m, "begin_paint")
    ELSE LET o == guac_display_layer_open_raw(m)
         IN [o EXCEPT !.current_context = CTX,
                      !.ctx.buffer = o.gdi.primary_buffer,
                      !.ctx.stride = o.gdi.stride,
                      !.ctx.bounds = guac_rect_init(0, 0, o.gdi.width, o.gdi.height)]

\* UINT32 w, h compared to INT_MAX: a 32-bit value whose sign bit is set is
\* above INT_MAX as an unsigned number.
InvalidSizeOk(inv) == inv.w >= 0 /\ inv.h >= 0

\* The body of end-paint after its checks, with the steps a mutant may drop:
\* `skip` jumps to paint_complete, `clip` constrains the region to the bounds.
end_paint_body(m, skip, clip) ==
    LET inv == m.gdi.invalid
        init_rect == guac_rect_init(inv.x, inv.y, inv.w, inv.h)
        dst_rect == IF clip THEN guac_rect_constrain(init_rect, m.ctx.bounds) ELSE init_rect
        painted == IF skip THEN m
                   ELSE [m EXCEPT !.ctx.dirty = guac_rect_extend(@, dst_rect),
                                  !.gdi_modified = 1,
                                  !.ev.merged = Append(@, dst_rect)]
        complete == [painted EXCEPT !.gdi.invalid.null = TRUE,
                                    !.gdi.ninvalid = 0,
                                    !.current_context = NULL]
    IN guac_display_layer_close_raw(complete)

\* Mutant: no check for an end-paint without a begin-paint.
end_paint_no_null_check(m) ==
    LET skip == m.gdi.suppressOutput \/ m.gdi.invalid.null
    IN IF ~skip /\ ~InvalidSizeOk(m.gdi.invalid) THEN Abort(m, "end_paint")
       ELSE end_paint_body(m, skip, TRUE)

\* Mutant: suppressed output returns at once instead of completing the paint.
end_paint_suppressed_returns(m) ==
    IF m.current_context = NULL \/ m.gdi.suppressOutput THEN m
    ELSE IF ~m.gdi.invalid.null /\ ~InvalidSizeOk(m.gdi.invalid) THEN Abort(m, "end_paint")
    ELSE end_paint_body(m, m.gdi.invalid.null, TRUE)

\* Mutant: the region is merged without being constrained to the bounds.
end_paint_no_constrain(m) ==
    IF m.current_context = NULL THEN m
    ELSE LET skip == m.gdi.suppressOutput \/ m.gdi.invalid.null
         IN IF ~skip /\ ~InvalidSizeOk(m.gdi.invalid) THEN Abort(m, "end_paint")
            ELSE end_paint_body(m, skip, FALSE)

\* Mutant: the null flag of the invalid region is not consulted.
end_paint_ignore_null(m) ==
    IF m.current_context = NULL THEN m
    ELSE LET skip == m.gdi.suppressOutput
         IN IF ~skip /\ ~InvalidSizeOk(m.gdi.invalid) THEN Abort(m, "end_paint")
            ELSE end_paint_body(m, skip, TRUE)

\* Mutant: suppressed output is not consulted.
end_paint_ignore_suppress(m) ==
    IF m.current_context = NULL THEN m
    ELSE LET skip == m.gdi.invalid.null
         IN IF ~skip /\ ~InvalidSizeOk(m.gdi.invalid) THEN Abort(m, "end_paint")
            ELSE end_paint_body(m, skip, TRUE)

guac_rdp_gdi_end_paint(m) ==
    IF m.current_context = NULL THEN m
    ELSE LET inv == m.gdi.invalid
             skip == m.gdi.suppressOutput \/ inv.null
         IN IF ~skip /\ ~InvalidSizeOk(inv) THEN Abort(m, "end_paint")
            ELSE LET dst_rect == guac_rect_constrain(
                                     guac_rect_init(inv.x, inv.y, inv.w, inv.h),
                                     m.ctx.bounds)
                     painted == IF skip THEN m
                                ELSE [m EXCEPT !.ctx.dirty = guac_rect_extend(@, dst_rect),
                                               !.gdi_modified = 1,
                                               !.ev.merged = Append(@, dst_rect)]
                     complete == [painted EXCEPT !.gdi.invalid.null = TRUE,
                                                 !.gdi.ninvalid = 0,
                                                 !.current_context = NULL]
                 IN guac_display_layer_close_raw(complete)

\* Mutant: the acknowledgment is sent for a threshold of zero as well.
surface_frame_marker_ack_always(m, frameAction, frameId) ==
    LET marked == guac_rdp_gdi_mark_frame(m, frameAction # SURFACECMD_FRAMEACTION_END)
    IN [marked EXCEPT !.ev.acks = Append(@, frameId)]

guac_rdp_gdi_surface_frame_marker(m, frameAction, frameId) ==
    LET marked == guac_rdp_gdi_mark_frame(m, frameAction # SURFACECMD_FRAMEACTION_END)
        frame_acknowledge == UInt32ToInt(marked.settings.FrameAcknowledge)
    IN IF frame_acknowledge > 0
       THEN [marked EXCEPT !.ev.acks = Append(@, frameId)]
       ELSE marked

\* The engine's row stride for a buffer of a given width. The callbacks only
\* copy it, so it is identified by the width it belongs to.
StrideOf(width) == width

\* The engine's resize primitive. From FreeRDP 3.8.0 on it calls EndPaint before
\* resizing; earlier versions do not. It reports success or failure and leaves
\* the engine with the buffer handle `buffer` (0: none).
gdi_resize(m, width, height, buffer, ok) ==
    LET flushed == IF m.pre38 THEN m ELSE guac_rdp_gdi_end_paint(m)
    IN IF flushed.aborted # "none" THEN flushed
       ELSE [flushed EXCEPT !.gdi.width = IF ok THEN width ELSE @,
                            !.gdi.height = IF ok THEN height ELSE @,
                            !.gdi.stride = IF ok THEN StrideOf(width) ELSE @,
                            !.gdi.primary_buffer = buffer,
                            !.ev.retval = ok,
                            !.ev.requested = <<width, height>>]

\* The monitor-layout layer parameter is sent to the client: the text of the
\* serializer's buffer.
guac_protocol_send_set(m, built) ==
    Step([m EXCEPT !.ev.layout = built.json, !.ev.layout_ok = built.ok], "send_set")

\* The cursor is reset to the default pointer.
guac_display_set_cursor(m) == Step(m, "set_cursor")

\* desktop-resize with the steps a mutant may drop: the assertion on the open
\* context, the assertion on the buffer handle, the resize of the layer; and
\* with an early return on a failed gdi_resize that the code does not have.
desktop_resize_body(m, width, height, buffer, ok, assertContext, assertBuffer,
                    resizeLayer, returnOnFailure) ==
    IF assertContext /\ m.pre38 /\ m.current_context # NULL
    THEN Abort(m, "desktop_resize")
    ELSE LET opened == Step(guac_display_layer_open_raw(m), "open_raw")
             resized == gdi_resize(opened, width, height, buffer, ok)
         IN IF resized.aborted # "none" THEN resized
            ELSE LET engine == Step(resized, "gdi_resize")
                 IN IF assertBuffer /\ engine.gdi.primary_buffer = 0
                    THEN Abort(engine, "desktop_resize_buffer")
                    ELSE LET updated == Step(
                                 [engine EXCEPT !.ctx.buffer = engine.gdi.primary_buffer,
                                                !.ctx.stride = engine.gdi.stride,
                                                !.ctx.bounds = guac_rect_init(0, 0,
                                                    engine.gdi.width, engine.gdi.height)],
                                 "set_context")
                             sized == IF resizeLayer
                                      THEN Step(guac_display_layer_resize(updated,
                                                    updated.gdi.width, updated.gdi.height),
                                                "layer_resize")
                                      ELSE updated
                             closed == Step(guac_display_layer_close_raw(sized), "close_raw")
                         IN IF returnOnFailure /\ ~closed.ev.retval THEN closed
                            ELSE guac_display_set_cursor(guac_protocol_send_set(closed,
                                     guac_rdp_build_monitor_layout_json(closed.disp)))

\* Mutant: the version-conditional assertion is compiled out on every path.
desktop_resize_no_assert(m, width, height, buffer, ok) ==
    desktop_resize_body(m, width, height, buffer, ok, FALSE, TRUE, TRUE, FALSE)

\* Mutant: the buffer handle is not checked after gdi_resize.
desktop_resize_no_buffer_assert(m, width, height, buffer, ok) ==
    desktop_resize_body(m, width, height, buffer, ok, TRUE, FALSE, TRUE, FALSE)

\* Mutant: the display layer is not resized.
desktop_resize_no_layer_resize(m, width, height, buffer, ok) ==
    desktop_resize_body(m, width, height, buffer, ok, TRUE, TRUE, FALSE, FALSE)

\* Mutant: a failed gdi_resize returns before the layout and the cursor.
desktop_resize_returns_on_failure(m, width, height, buffer, ok) ==
    desktop_resize_body(m, width, height, buffer, ok, TRUE, TRUE, TRUE, TRUE)

\* Mutant: the layout and the cursor are sent before the context is closed.
desktop_resize_sends_before_close(m, width, height, buffer, ok) ==
    IF m.pre38 /\ m.current_context # NULL THEN Abort(m, "desktop_resize")
    ELSE LET opened == Step(guac_display_layer_open_raw(m), "open_raw")
             resized == gdi_resize(opened, width, height, buffer, ok)
         IN IF resized.aborted # "none" THEN resized
            ELSE LET engine == Step(resized, "gdi_resize")
                 IN IF engine.gdi.primary_buffer = 0
                    THEN Abort(engine, "desktop_resize_buffer")
                    ELSE LET updated == Step(
                                 [engine EXCEPT !.ctx.buffer = engine.gdi.primary_buffer,
                                                !.ctx.stride = engine.gdi.stride,
                                                !.ctx.bounds = guac_rect_init(0, 0,
                                                    engine.gdi.width, engine.gdi.height)],
                                 "set_context")
                             sized == Step(guac_display_layer_resize(updated,
                                               updated.gdi.width, updated.gdi.height),
                                           "layer_resize")
                             sent == guac_display_set_cursor(guac_protocol_send_set(sized,
                                     guac_rdp_build_monitor_layout_json(sized.disp)))
                         IN Step(guac_display_layer_close_raw(sent), "close_raw")

\* Mutant: the context acquired for the resize is not released.
desktop_resize_no_close(m, width, height, buffer, ok) ==
    IF m.pre38 /\ m.current_context # NULL THEN Abort(m, "desktop_resize")
    ELSE LET opened == Step(guac_display_layer_open_raw(m), "open_raw")
             resized == gdi_resize(opened, width, height, buffer, ok)
         IN IF resized.aborted # "none" THEN resized
            ELSE LET engine == Step(resized, "gdi_resize")
                 IN IF engine.gdi.primary_buffer = 0
                    THEN Abort(engine, "desktop_resize_buffer")
                    ELSE LET updated == Step(
                                 [engine EXCEPT !.ctx.buffer = engine.gdi.primary_buffer,
                                                !.ctx.stride = engine.gdi.stride,
                                                !.ctx.bounds = guac_rect_init(0, 0,
                                                    engine.gdi.width, engine.gdi.height)],
                                 "set_context")
                             sized == Step(guac_display_layer_resize(updated,
                                               updated.gdi.width, updated.gdi.height),
                                           "layer_resize")
                         IN guac_display_set_cursor(guac_protocol_send_set(sized,
                                     guac_rdp_build_monitor_layout_json(sized.disp)))

guac_rdp_gdi_desktop_resize(m, width, height, buffer, ok) ==
    IF m.pre38 /\ m.current_context # NULL THEN Abort(m, "desktop_resize")
    ELSE LET opened == Step(guac_display_layer_open_raw(m), "open_raw")
             resized == gdi_resize(opened, width, height, buffer, ok)
         IN IF resized.aborted # "none" THEN resized
            ELSE LET engine == Step(resized, "gdi_resize")
                 IN IF engine.gdi.primary_buffer = 0
                    THEN Abort(engine, "desktop_resize_buffer")
                    ELSE LET updated == Step(
                                 [engine EXCEPT !.ctx.buffer = engine.gdi.primary_buffer,
                                                !.ctx.stride = engine.gdi.stride,
                                                !.ctx.bounds = guac_rect_init(0, 0,
                                                    engine.gdi.width, engine.gdi.height)],
                                 "set_context")
                             sized == Step(guac_display_layer_resize(updated,
                                               updated.gdi.width, updated.gdi.height),
                                           "layer_resize")
                             closed == Step(guac_display_layer_close_raw(sized), "close_raw")
                         IN guac_display_set_cursor(guac_protocol_send_set(closed,
                                     guac_rdp_build_monitor_layout_json(closed.disp)))

(***************************************************************************)
(* Inputs of the engine.                                                   *)
(***************************************************************************)

\* Desktop geometries <<width, height>> the engine may report.
Sizes == {<<4, 4>>, <<2, 3>>}

Rect4(x, y, w, h) == [x |-> x, y |-> y, w |-> w, h |-> h]

\* Invalidated regions the engine may report: inside every geometry, inside
\* the larger one only (wholly outside the smaller), straddling the edges and
\* reaching past INT_MAX, left of the origin, and of a width above INT_MAX.
InvalidRects ==
    { Rect4(0, 0, 1, 1), Rect4(3, 3, 1, 1), Rect4(1, 2, INT_MAX, INT_MAX),
      Rect4(-1, 0, 2, 1), Rect4(0, 0, -1, 1) }

AckSettings == {U32(0, 0), U32(0, 2)}

(***************************************************************************)
(* Actions: one per callback, engine step or render-thread step.           *)
(***************************************************************************)

\* The state a handler call leaves, and the record of the call.
\* The handler's result is computed once and becomes the next state.
CommitCore(op, m) ==
    \E r \in {m} :
        /\ aborted' = r.aborted
        /\ current_context' = r.current_context
        /\ gdi_modified' = r.gdi_modified
        /\ gdi' = r.gdi
        /\ ctx' = r.ctx
        /\ layer' = r.layer
        /\ frames' = r.frames
        /\ peak' = r.peak
        /\ last' = [op |-> op, wasOpen |-> current_context # NULL, ev |-> r.ev]
        /\ UNCHANGED <<pre38, settings, disp, copilot, camera, reply>>

Commit(op, m) == CommitCore(op, m) /\ UNCHANGED <<feed, track>>

\* open_raw takes the layer's lock, which the render thread holds while reading.
RawLockFree == ~layer.reading

BeginPaint ==
    /\ aborted = "none"
    /\ current_context = NULL => RawLockFree
    /\ Commit("begin_paint", guac_rdp_gdi_begin_paint(M))

EndPaint ==
    /\ aborted = "none"
    /\ Commit("end_paint", guac_rdp_gdi_end_paint(M))

DesktopResize ==
    /\ aborted = "none"
    /\ layer.open = 0 => RawLockFree
    /\ \E sz \in Sizes, buffer \in Buffers \cup {0}, ok \in BOOLEAN :
          Commit("desktop_resize",
                 guac_rdp_gdi_desktop_resize(M, sz[1], sz[2], buffer, ok))

FrameMarker ==
    /\ aborted = "none"
    /\ frames < MaxFrames
    /\ \E action \in FrameActions :
          Commit(IF action = FRAME_START THEN "frame_start"
                 ELSE IF action = 1 THEN "frame_end" ELSE "frame_other",
                 guac_rdp_gdi_frame_marker(M, action))

SurfaceFrameMarker ==
    /\ aborted = "none"
    /\ frames < MaxFrames
    /\ \E frameAction \in FrameActions, frameId \in FrameIds :
          Commit(IF frameAction = SURFACECMD_FRAMEACTION_END THEN "surface_end"
                 ELSE IF frameAction = 0 THEN "surface_begin" ELSE "surface_other",
                 guac_rdp_gdi_surface_frame_marker(M, frameAction, frameId))

\* The engine draws: its invalid region becomes r.
EngineInvalidate(m, r) ==
    [m EXCEPT !.gdi.invalid = [null |-> FALSE, x |-> r.x, y |-> r.y, w |-> r.w, h |-> r.h],
              !.gdi.ninvalid = 1]

Invalidate ==
    /\ aborted = "none"
    /\ \E r \in InvalidRects : Commit("invalidate", EngineInvalidate(M, r))

\* The scripted engine draws one of its pending regions inside a paint burst
\* that has drawn nothing yet.
InvalidateOnce ==
    /\ aborted = "none"
    /\ current_context # NULL
    /\ gdi.invalid.null
    /\ \E r \in feed.pending :
          /\ CommitCore("invalidate", EngineInvalidate(M, r))
          /\ feed' = [feed EXCEPT !.pending = @ \ {r}]
    /\ UNCHANGED track

\* The engine suppresses or resumes GDI output.
SuppressOutput ==
    /\ aborted = "none"
    /\ Commit("suppress_output", [M EXCEPT !.gdi.suppressOutput = ~@])

\* The render thread takes a notified frame: it reads the layer's buffer
\* under the layer's lock, which no open raw context may hold.
ReadBegin ==
    /\ aborted = "none"
    /\ frames > 0
    /\ ~layer.reading
    /\ layer.open = 0
    /\ Commit("read_begin", [M EXCEPT !.layer.reading = TRUE, !.frames = 0])

\* The render thread has flushed the frame: the committed dirty state is consumed.
ReadEnd ==
    /\ aborted = "none"
    /\ layer.reading
    /\ Commit("read_end", [M EXCEPT !.layer.reading = FALSE, !.layer.dirty = EmptyRect])

(***************************************************************************)
(* The copilot (libguac/copilot.c). A call is a function on the record K   *)
(* of the copilot and what the call has returned, sent and written so far. *)
(* Names, commands and protocols are strings; a name of 128 characters or  *)
(* more is one string, LongName, and its first 127 characters another.     *)
(***************************************************************************)

GUAC_COPILOT_HISTORY_SIZE == 50

GUAC_COPILOT_MAX_WORKFLOW_STEPS == 100

LongName == "name of 128 characters"

LongNameCut == "its first 127 characters"

\* guac_strlcpy(wf->name, name, GUAC_COPILOT_MAX_WORKFLOW_NAME)
guac_strlcpy(name) == IF name = LongName THEN LongNameCut ELSE name

\* A workflow pointer that is NULL.
NullWorkflow == [null |-> TRUE]

K == [copilot |-> copilot, ret |-> 0, sent |-> <<>>, written |-> <<>>]

Return(k, value) == [k EXCEPT !.ret = value]

\* The copilot after guac_copilot_alloc, with the API key of the settings.
guac_copilot_alloc(key) ==
    [enabled |-> TRUE,
     context |-> [protocol |-> NULL, current_directory |-> NULL, os_type |-> NULL,
                  command_history |-> <<>>, is_privileged |-> 0, last_error |-> NULL],
     workflows |-> <<>>,
     recording |-> FALSE,
     recorded_workflow |-> NullWorkflow,
     ai_api_key |-> key]

\* One instruction to the client, of the given message type.
guac_copilot_send_message(k, message_type, message) ==
    [k EXCEPT !.sent = Append(@, [type |-> message_type, message |-> message])]

\* Mutant: a full registry does not refuse a workflow.
register_workflow_no_limit(k, self, workflow) ==
    IF self = NULL \/ workflow = NullWorkflow THEN Return(k, -1)
    ELSE Return([k EXCEPT !.copilot.workflows = Append(@, workflow)], 0)

guac_copilot_register_workflow(k, self, workflow) ==
    IF self = NULL \/ workflow = NullWorkflow THEN Return(k, -1)
    ELSE IF Len(k.copilot.workflows) >= 10 THEN Return(k, -1)
    ELSE Return([k EXCEPT !.copilot.workflows = Append(@, workflow)], 0)

\* The index of the first workflow of that name, 0 if there is none.
FindWorkflow(workflows, workflow_name) ==
    IF \E i \in 1..Len(workflows) : workflows[i].name = workflow_name
    THEN CHOOSE i \in 1..Len(workflows) :
            /\ workflows[i].name = workflow_name
            /\ \A j \in 1..(i - 1) : workflows[j].name # workflow_name
    ELSE 0

RECURSIVE send_steps(_, _, _)
\* The loop of guac_copilot_execute_workflow from step i on (1-based).
send_steps(k, steps, i) ==
    IF i > Len(steps) THEN k
    ELSE send_steps(
             guac_copilot_send_message(k, "workflow",
                 [type |-> "workflow_step", step |-> i,
                  description |-> steps[i].description, command |-> steps[i].command]),
             steps, i + 1)

\* Mutant: the completion message is sent before the steps.
execute_workflow_complete_first(k, self, workflow_name) ==
    IF self = NULL \/ workflow_name = NULL THEN Return(k, -1)
    ELSE LET i == FindWorkflow(k.copilot.workflows, workflow_name)
         IN IF i = 0 THEN Return(k, -1)
            ELSE LET workflow == k.copilot.workflows[i]
                     started == guac_copilot_send_message(k, "workflow",
                                    [type |-> "workflow_start", name |-> workflow.name,
                                     steps |-> Len(workflow.steps)])
                     completed == guac_copilot_send_message(started, "workflow",
                                    [type |-> "workflow_complete", name |-> workflow.name])
                 IN Return(send_steps(completed, workflow.steps, 1), 0)

guac_copilot_execute_workflow(k, self, workflow_name) ==
    IF self = NULL \/ workflow_name = NULL THEN Return(k, -1)
    ELSE LET i == FindWorkflow(k.copilot.workflows, workflow_name)
         IN IF i = 0 THEN Return(k, -1)
            ELSE LET workflow == k.copilot.workflows[i]
                     started == guac_copilot_send_message(k, "workflow",
                                    [type |-> "workflow_start", name |-> workflow.name,
                                     steps |-> Len(workflow.steps)])
                     stepped == send_steps(started, workflow.steps, 1)
                 IN Return(guac_copilot_send_message(stepped, "workflow",
                               [type |-> "workflow_complete", name |-> workflow.name]), 0)

\* Mutant: a recording in progress is replaced by the new one.
start_recording_restarts(k, self, workflow_name) ==
    IF self = NULL \/ workflow_name = NULL THEN Return(k, -1)
    ELSE Return(guac_copilot_send_message(
                    [k EXCEPT !.copilot.recorded_workflow =
                                  [name |-> guac_strlcpy(workflow_name),
                                   protocol |-> NULL, steps |-> <<>>],
                              !.copilot.recording = TRUE],
                    "recording",
                    [type |-> "recording_started", name |-> workflow_name]), 0)

guac_copilot_start_recording(k, self, workflow_name) ==
    IF self = NULL \/ workflow_name = NULL THEN Return(k, -1)
    ELSE IF k.copilot.recording THEN Return(k, -1)
    ELSE Return(guac_copilot_send_message(
                    [k EXCEPT !.copilot.recorded_workflow =
                                  [name |-> guac_strlcpy(workflow_name),
                                   protocol |-> NULL, steps |-> <<>>],
                              !.copilot.recording = TRUE],
                    "recording",
                    [type |-> "recording_started", name |-> workflow_name]), 0)

\* Mutant: stopping with no recording active reports the stop all the same.
stop_recording_when_idle(k, self) ==
    IF self = NULL THEN Return(k, -1)
    ELSE Return(guac_copilot_send_message([k EXCEPT !.copilot.recording = FALSE],
                    "recording", [type |-> "recording_stopped"]), 0)

\* The result of guac_copilot_register_workflow is not looked at.
guac_copilot_stop_recording(k, self) ==
    IF self = NULL \/ ~k.copilot.recording THEN Return(k, -1)
    ELSE LET stopped == [k EXCEPT !.copilot.recording = FALSE]
             wf == stopped.copilot.recorded_workflow
         IN IF wf = NullWorkflow THEN Return(stopped, 0)
            ELSE LET registered == guac_copilot_register_workflow(stopped, self, wf)
                     told == guac_copilot_send_message(registered, "recording",
                                 [type |-> "recording_stopped", name |-> wf.name,
                                  steps |-> Len(wf.steps)])
                 IN Return([told EXCEPT !.copilot.recorded_workflow = NullWorkflow], 0)

\* Mutant: a full history keeps its oldest entry and gives up its newest.
add_command_evicts_newest(k, self, command) ==
    IF self = NULL \/ command = NULL THEN k
    ELSE LET history == k.copilot.context.command_history
             room == IF Len(history) >= GUAC_COPILOT_HISTORY_SIZE
                     THEN SubSeq(history, 1, Len(history) - 1) ELSE history
             added == [k EXCEPT !.copilot.context.command_history = Append(room, command)]
             wf == added.copilot.recorded_workflow
         IN IF added.copilot.recording /\ wf # NullWorkflow
               /\ Len(wf.steps) < GUAC_COPILOT_MAX_WORKFLOW_STEPS
            THEN [added EXCEPT !.copilot.recorded_workflow.steps =
                      Append(@, [description |-> command, command |-> command])]
            ELSE added

\* Mutant: a recorded workflow that is full drops its first step for the
\* new one, as the history does.
add_command_rolls_steps(k, self, command) ==
    IF self = NULL \/ command = NULL THEN k
    ELSE LET history == k.copilot.context.command_history
             room == IF Len(history) >= GUAC_COPILOT_HISTORY_SIZE
                     THEN Tail(history) ELSE history
             added == [k EXCEPT !.copilot.context.command_history = Append(room, command)]
             wf == added.copilot.recorded_workflow
         IN IF added.copilot.recording /\ wf # NullWorkflow
            THEN [added EXCEPT !.copilot.recorded_workflow.steps =
                      Append(IF Len(@) < GUAC_COPILOT_MAX_WORKFLOW_STEPS
                             THEN @ ELSE Tail(@),
                             [description |-> command, command |-> command])]
            ELSE added

guac_copilot_add_command(k, self, command) ==
    IF self = NULL \/ command = NULL THEN k
    ELSE LET history == k.copilot.context.command_history
             room == IF Len(history) >= GUAC_COPILOT_HISTORY_SIZE
                     THEN Tail(history) ELSE history
             added == [k EXCEPT !.copilot.context.command_history = Append(room, command)]
             wf == added.copilot.recorded_workflow
         IN IF added.copilot.recording /\ wf # NullWorkflow
               /\ Len(wf.steps) < GUAC_COPILOT_MAX_WORKFLOW_STEPS
            THEN [added EXCEPT !.copilot.recorded_workflow.steps =
                      Append(@, [description |-> command, command |-> command])]
            ELSE added

\* A workflow of copilot-workflows.c: its name, protocol and number of steps.
\* Each step has a description and a command of its own.
Builtin(name, protocol, step_count) ==
    [name |-> name, protocol |-> protocol,
     steps |-> [i \in 1..step_count |->
                   [description |-> "description " \o ToString(i),
                    command |-> "command " \o ToString(i)]]]

BuiltinWorkflows ==
    << Builtin("system-diagnostics", "ssh", 6), Builtin("security-scan", "ssh", 5),
       Builtin("docker-status", "ssh", 5), Builtin("analyze-logs", "ssh", 4),
       Builtin("verify-backups", "ssh", 3), Builtin("webserver-health", "ssh", 5),
       Builtin("database-health", "ssh", 4), Builtin("windows-diagnostics", "rdp", 5) >>

RECURSIVE register_all(_, _, _, _)
register_all(k, self, workflows, i) ==
    IF i > Len(workflows) THEN k
    ELSE register_all(guac_copilot_register_workflow(k, self, workflows[i]),
                      self, workflows, i + 1)

guac_copilot_init_workflows(k, self) ==
    IF self = NULL THEN k ELSE register_all(k, self, BuiltinWorkflows, 1)

\* Mutant: a NULL argument clears the stored value.
update_context_clears(k, self, protocol, current_dir, os_type) ==
    IF self = NULL THEN k
    ELSE [k EXCEPT !.copilot.context.protocol = protocol,
                   !.copilot.context.current_directory = current_dir,
                   !.copilot.context.os_type = os_type]

guac_copilot_update_context(k, self, protocol, current_dir, os_type) ==
    IF self = NULL THEN k
    ELSE [k EXCEPT
             !.copilot.context.protocol = IF protocol # NULL THEN protocol ELSE @,
             !.copilot.context.current_directory =
                 IF current_dir # NULL THEN current_dir ELSE @,
             !.copilot.context.os_type = IF os_type # NULL THEN os_type ELSE @]

strlen(text) == Len(text)

\* strncmp(text, prefix, strlen(prefix)) == 0
strncmp_equal(text, prefix) ==
    /\ Len(text) >= Len(prefix)
    /\ SubSeq(text, 1, Len(prefix)) = prefix

\* value ? value : fallback
OrElse(value, fallback) == IF value # NULL THEN value ELSE fallback

RECURSIVE add_history(_, _, _)
\* The loop adding recent commands to the prompt, from command i on (1-based):
\* what history_len is after it. Every snprintf of the loop starts below 1800.
add_history(command_history, i, history_len) ==
    IF i > Len(command_history) \/ history_len >= 1800 THEN history_len
    ELSE add_history(command_history, i + 1,
                     history_len + strlen("'" \o command_history[i] \o "', "))

\* history_len when the request is added to prompt[2048].
prompt_history_len(context) ==
    LET text == "User is in a " \o OrElse(context.protocol, "remote")
                \o " session on " \o OrElse(context.os_type, "unknown OS")
                \o ". Current directory: " \o OrElse(context.current_directory, "/")
                \o ". Recent commands: "
        written == IF strlen(text) > 2047 THEN 2047 ELSE strlen(text)
        command_count == Len(context.command_history)
        cmd_start == IF command_count > 3 THEN command_count - 3 ELSE 0
    IN add_history(context.command_history, cmd_start + 1, written)

\* The request is written at prompt + history_len with a size of
\* sizeof(prompt) - history_len, which wraps around when history_len is beyond
\* the buffer: the write is then outside prompt.
prompt_overflows(context) == prompt_history_len(context) > 2048

RECURSIVE strtok(_, _)
\* The tokens strtok(ai_response, "\n") yields in turn; token is the one begun.
strtok(text, token) ==
    IF text = ""
    THEN IF token = "" THEN <<>> ELSE <<token>>
    ELSE IF Head(text) = "\n"
         THEN (IF token = "" THEN <<>> ELSE <<token>>) \o strtok(Tail(text), "")
         ELSE strtok(Tail(text), token \o Head(text))

RECURSIVE skip_blanks(_)
\* while (*line == ' ' || *line == '\t') line++
skip_blanks(line) ==
    IF line # "" /\ Head(line) \in {" ", "\t"} THEN skip_blanks(Tail(line)) ELSE line

RECURSIVE parse_lines(_, _, _, _)
\* The loop over the lines of the answer, from line i on (1-based).
parse_lines(lines, i, suggestions, max_suggestions) ==
    IF i > Len(lines) \/ Len(suggestions) >= max_suggestions THEN suggestions
    ELSE LET line == skip_blanks(lines[i])
         IN parse_lines(lines, i + 1,
                        IF strlen(line) > 0 THEN Append(suggestions, line)
                        ELSE suggestions,
                        max_suggestions)

\* if (count < max_suggestions) (*suggestions)[count++] = guac_strdup(text)
Suggest(suggestions, max_suggestions, text) ==
    IF Len(suggestions) < max_suggestions THEN Append(suggestions, text)
    ELSE suggestions

\* The suggestions made without an answer of the AI.
local_suggestions(context, input, suggestions, max_suggestions) ==
    LET S(list, text) == Suggest(list, max_suggestions, text)
        by_protocol ==
            IF context.protocol # NULL /\ context.protocol = "ssh"
            THEN IF input = NULL \/ strlen(input) = 0
                 THEN S(S(S(suggestions, "ls -la"), "pwd"), "cd ~")
                 ELSE IF strncmp_equal(input, "l")
                 THEN S(S(suggestions, "ls -la"), "ll")
                 ELSE IF strncmp_equal(input, "cd")
                 THEN S(S(suggestions, "cd ~"), "cd ..")
                 ELSE suggestions
            ELSE IF context.protocol # NULL /\ context.protocol = "rdp"
            THEN S(S(S(suggestions, "Open Task Manager"), "Open Command Prompt"),
                   "Open PowerShell")
            ELSE suggestions
        command_count == Len(context.command_history)
    IN IF Len(by_protocol) < max_suggestions /\ command_count > 0
       THEN Append(by_protocol, context.command_history[command_count])
       ELSE by_protocol

\* The call when the prompt is built inside its buffer. suggestions is the
\* out-parameter, NULL or not; answer is what guac_copilot_query_openai returns
\* and leaves in ai_response. The suggestions written are k.written.
guac_copilot_suggest_commands(k, self, input, suggestions, max_suggestions, answer) ==
    IF self = NULL \/ suggestions = NULL THEN Return(k, 0)
    ELSE LET context == k.copilot.context
             key == k.copilot.ai_api_key
             from_ai == IF key # NULL /\ strlen(key) > 0 /\ answer.ret = 0
                        THEN parse_lines(strtok(answer.response, ""), 1, <<>>,
                                         max_suggestions)
                        ELSE <<>>
             all == IF Len(from_ai) > 0 THEN from_ai
                    ELSE local_suggestions(context, input, from_ai, max_suggestions)
         IN Return([k EXCEPT !.written = all], Len(all))

\* The items of the workflows message.
workflow_items(workflows) ==
    [i \in 1..Len(workflows) |->
        [name |-> workflows[i].name, steps |-> Len(workflows[i].steps),
         protocol |-> OrElse(workflows[i].protocol, "all")]]

\* The results of starting and stopping a recording are not looked at.
guac_copilot_handle_command(k, self, command_type, command_data, answer) ==
    IF self = NULL THEN Return(k, -1)
    ELSE IF ~k.copilot.enabled THEN Return(k, -1)
    ELSE LET context == k.copilot.context
         IN CASE command_type = "GUAC_COPILOT_CMD_SUGGEST" ->
                  LET suggested == guac_copilot_suggest_commands(
                                       k, self, command_data, "suggestions", 5, answer)
                  IN Return(guac_copilot_send_message(
                                [suggested EXCEPT !.written = <<>>], "suggestions",
                                [type |-> "suggestions", items |-> suggested.written]), 0)
              [] command_type = "GUAC_COPILOT_CMD_EXECUTE_WORKFLOW" ->
                  guac_copilot_execute_workflow(k, self, command_data)
              [] command_type = "GUAC_COPILOT_CMD_CONTEXT_HELP" ->
                  Return(guac_copilot_send_message(k, "help",
                             [type |-> "help",
                              protocol |-> OrElse(context.protocol, "unknown"),
                              os |-> OrElse(context.os_type, "unknown"),
                              directory |-> OrElse(context.current_directory, "/")]), 0)
              [] command_type = "GUAC_COPILOT_CMD_LIST_WORKFLOWS" ->
                  Return(guac_copilot_send_message(k, "workflows",
                             [type |-> "workflows",
                              items |-> workflow_items(k.copilot.workflows)]), 0)
              [] command_type = "GUAC_COPILOT_CMD_RECORD_WORKFLOW" ->
                  IF k.copilot.recording
                  THEN Return(guac_copilot_stop_recording(k, self), 0)
                  ELSE Return(guac_copilot_start_recording(k, self, command_data), 0)
              [] command_type = "GUAC_COPILOT_CMD_SESSION_INSIGHTS" ->
                  Return(guac_copilot_send_message(k, "insights",
                             [type |-> "insights",
                              commands_executed |-> Len(context.command_history),
                              protocol |-> OrElse(context.protocol, "unknown"),
                              privileged |-> context.is_privileged]), 0)
              [] OTHER -> Return(k, -1)

(***************************************************************************)
(* The camera module of channels/camera.c. camera is rdp_client->camera;   *)
(* the writes a handler makes to the virtual device are k.written.         *)
(***************************************************************************)

\* rdp_client->camera when no camera module was allocated.
NullCamera == [null |-> TRUE]

guac_rdp_camera_alloc ==
    [virtual_device_path |-> NULL, active |-> FALSE, video_stream |-> NULL,
     device_fd |-> -1]

\* fd is what mkstemp returns. The result is the camera and the value returned.
guac_rdp_camera_start_stream(self, fd) ==
    IF self = NullCamera THEN [camera |-> self, ret |-> -1]
    ELSE IF fd = -1 THEN [camera |-> [self EXCEPT !.device_fd = -1], ret |-> -1]
    ELSE [camera |-> [self EXCEPT !.device_fd = fd,
                                  !.virtual_device_path = "/tmp/guac_camera_XXXXXX"],
          ret |-> 0]

\* The calls guac_rdp_camera_stop_stream makes on the virtual device.
stop_stream_calls(self) ==
    IF self = NullCamera THEN <<>>
    ELSE (IF self.device_fd # -1
          THEN <<[call |-> "close", fd |-> self.device_fd]>> ELSE <<>>)
         \o (IF self.virtual_device_path # NULL
             THEN <<[call |-> "unlink", path |-> self.virtual_device_path]>>
             ELSE <<>>)

\* Mutant: stopping leaves the camera active.
stop_stream_stays_active(self) ==
    IF self = NullCamera THEN self
    ELSE [self EXCEPT !.device_fd = -1, !.virtual_device_path = NULL,
                      !.video_stream = NULL]

guac_rdp_camera_stop_stream(self) ==
    IF self = NullCamera THEN self
    ELSE [self EXCEPT !.device_fd = -1, !.virtual_device_path = NULL,
                      !.video_stream = NULL, !.active = FALSE]

guac_rdp_camera_channel_connected(self, name) ==
    IF name # "camera" \/ self = NullCamera THEN self
    ELSE [self EXCEPT !.active = TRUE]

guac_rdp_camera_channel_disconnected(self, name) ==
    IF name # "camera" \/ self = NullCamera THEN self
    ELSE [self EXCEPT !.active = FALSE]

\* bytes_written is what write returns.
guac_rdp_camera_handle_video_data(k, self, data, length, bytes_written) ==
    IF self = NullCamera THEN Return(k, -1)
    ELSE IF self.device_fd = -1 \/ data = NULL \/ length <= 0 THEN Return(k, -1)
    ELSE LET wrote == [k EXCEPT !.written =
                          Append(@, [fd |-> self.device_fd, data |-> data,
                                     length |-> length])]
         IN IF bytes_written # length THEN Return(wrote, -1) ELSE Return(wrote, 0)

\* Mutant: video data is forwarded whether or not the camera is active.
blob_handler_ignores_active(k, self, data, length, bytes_written) ==
    IF self = NullCamera THEN Return(k, 0)
    ELSE IF guac_rdp_camera_handle_video_data(k, self, data, length, bytes_written).ret # 0
         THEN Return(guac_rdp_camera_handle_video_data(
                         k, self, data, length, bytes_written), -1)
         ELSE guac_rdp_camera_handle_video_data(k, self, data, length, bytes_written)

guac_rdp_camera_blob_handler(k, self, data, length, bytes_written) ==
    IF self = NullCamera THEN Return(k, 0)
    ELSE IF ~self.active THEN Return(k, 0)
    ELSE LET handled == guac_rdp_camera_handle_video_data(
                            k, self, data, length, bytes_written)
         IN IF handled.ret # 0 THEN Return(handled, -1) ELSE Return(handled, 0)

guac_rdp_camera_end_handler(self) ==
    IF self # NullCamera THEN [self EXCEPT !.video_stream = NULL] ELSE self

\* No copilot or camera call made yet.
NoReply == [op |-> "none", ret |-> 0, sent |-> <<>>, written |-> <<>>, args |-> <<>>]

\* rdp_client->copilot before guac_rdp_copilot_init.
NullCopilot == [null |-> TRUE]

\* A session whose copilot and camera are not allocated yet, no call made.
InitAssist ==
    /\ copilot = NullCopilot
    /\ camera = NullCamera
    /\ reply = NoReply

\* The frame boundary tracker before any marker, and a marker stream not begun.
TrackInit == [state |-> "AwaitingFrame", markers |-> 0, ends |-> 0, others |-> 0,
              completed |-> 0, notified |-> 0, acks |-> 0]

\* The state after construction, for a desktop of one of the geometries.
InitIdle(sizes) ==
    /\ aborted = "none"
    /\ current_context = NULL
    /\ gdi_modified = 0
    /\ \E sz \in sizes :
          /\ gdi = [width |-> sz[1], height |-> sz[2], stride |-> StrideOf(sz[1]),
                    primary_buffer |-> 1, suppressOutput |-> FALSE,
                    invalid |-> [null |-> TRUE, x |-> 0, y |-> 0, w |-> 0, h |-> 0],
                    ninvalid |-> 0]
          /\ layer = [width |-> sz[1], height |-> sz[2], buffer |-> 1,
                      stride |-> StrideOf(sz[1]), dirty |-> EmptyRect, open |-> 0,
                      reading |-> FALSE]
          /\ ctx = [buffer |-> 1, stride |-> StrideOf(sz[1]),
                    bounds |-> guac_rect_init(0, 0, sz[1], sz[2]), dirty |-> EmptyRect]
    /\ frames = 0
    /\ peak = 0
    /\ last = [op |-> "init", wasOpen |-> FALSE, ev |-> ZeroEv]
    /\ track = TrackInit

Init ==
    /\ pre38 \in BOOLEAN
    /\ settings \in [FrameAcknowledge : AckSettings]
    /\ InitIdle(Sizes)
    /\ InitAssist
    /\ feed = [all |-> {}, pending |-> {}]
    /\ disp = <<Monitor(0, 0, 0, 0)>>

Next ==
    \/ BeginPaint
    \/ EndPaint
    \/ DesktopResize
    \/ FrameMarker
    \/ SurfaceFrameMarker
    \/ Invalidate
    \/ SuppressOutput
    \/ ReadBegin
    \/ ReadEnd

Spec == Init /\ [][Next]_vars

(***************************************************************************)
(* Paint bursts over scripted regions: the engine invalidates each region  *)
(* of a chosen set exactly once, one per burst, in any order.              *)
(***************************************************************************)

\* 32-bit coordinates and sizes at and around the ends of the range.
WideXs == {INT_MIN, -1, 0, 1, 3, INT_MAX - 1, INT_MAX}

WideWs == {0, 1, 2, INT_MAX - 1, INT_MAX}

WideSizes == {<<1, 1>>, <<4, 4>>, <<4, INT_MAX>>, <<INT_MAX, INT_MAX>>}

WideRects == {Rect4(x, y, w, h) : x \in WideXs, y \in WideXs, w \in WideWs, h \in WideWs}

NextFeed ==
    \/ BeginPaint
    \/ InvalidateOnce
    \/ EndPaint

\* One region from the whole 32-bit range, painted in one burst.
InitRect ==
    /\ pre38 = FALSE
    /\ settings = [FrameAcknowledge |-> U32(0, 0)]
    /\ InitIdle(WideSizes)
    /\ InitAssist
    /\ \E r \in WideRects : feed = [all |-> {r}, pending |-> {r}]
    /\ disp = <<Monitor(0, 0, 0, 0)>>

SpecRect == InitRect /\ [][NextFeed]_vars

\* Most regions of one script.
MaxRects == 3

\* Regions around a 4x4 and a 2x3 desktop: inside, on the edges, outside,
\* empty, left of and above the origin, reaching past INT_MAX.
UnionRects ==
    { Rect4(0, 0, 1, 1), Rect4(3, 3, 1, 1), Rect4(1, 2, 1, 1), Rect4(-1, 1, 2, 2),
      Rect4(2, -1, 1, 2), Rect4(5, 0, 1, 1), Rect4(0, 1, 0, 3),
      Rect4(1, 3, INT_MAX, INT_MAX) }

InitUnion ==
    /\ pre38 = FALSE
    /\ settings = [FrameAcknowledge |-> U32(0, 0)]
    /\ InitIdle(Sizes)
    /\ InitAssist
    /\ \E s \in SUBSET UnionRects :
          /\ Cardinality(s) <= MaxRects
          /\ feed = [all |-> s, pending |-> s]
    /\ disp = <<Monitor(0, 0, 0, 0)>>

SpecUnion == InitUnion /\ [][NextFeed]_vars

(***************************************************************************)
(* Marker streams: frame markers of both shapes and of every action code,  *)
(* under acknowledgment thresholds over the whole UINT32 range. The frame  *)
(* boundary tracker follows the stream, and the stream is counted.         *)
(***************************************************************************)

MaxMarkers == 3

WideAckSettings == {U32(0, 0), U32(0, 1), U32(0, 2), U32(0, INT_MAX),
                    U32(1, 0), U32(1, INT_MAX)}

\* What a marker's action code signals to the tracker.
Signal(action) == IF action = 0 THEN "start" ELSE IF action = 1 THEN "end" ELSE "other"

\* The tracker and the counts after a marker: t before it, m the machine
\* after its handler.
TrackAfter(t, explicit, action, m) ==
    [state     |-> CASE Signal(action) = "start" -> "InFrame"
                     [] Signal(action) = "end" -> "AwaitingFrame"
                     [] OTHER -> t.state,
     markers   |-> t.markers + 1,
     ends      |-> t.ends + (IF Signal(action) = "end" THEN 1 ELSE 0),
     others    |-> t.others + (IF explicit /\ Signal(action) = "other" THEN 1 ELSE 0),
     completed |-> t.completed +
                   (IF Signal(action) = "end" /\ t.state = "InFrame" THEN 1 ELSE 0),
     notified  |-> t.notified + m.ev.notifies,
     acks      |-> t.acks + Len(m.ev.acks)]

StreamFrameMarker ==
    /\ aborted = "none"
    /\ track.markers < MaxMarkers
    /\ \E action \in FrameActions :
          LET m == guac_rdp_gdi_frame_marker(M, action)
          IN /\ CommitCore(IF action = FRAME_START THEN "frame_start"
                           ELSE IF action = 1 THEN "frame_end" ELSE "frame_other", m)
             /\ track' = TrackAfter(track, TRUE, action, m)
             /\ UNCHANGED feed

StreamSurfaceFrameMarker ==
    /\ aborted = "none"
    /\ track.markers < MaxMarkers
    /\ \E frameAction \in FrameActions, frameId \in FrameIds :
          LET m == guac_rdp_gdi_surface_frame_marker(M, frameAction, frameId)
          IN /\ CommitCore(IF frameAction = SURFACECMD_FRAMEACTION_END THEN "surface_end"
                           ELSE IF frameAction = 0 THEN "surface_begin"
                           ELSE "surface_other", m)
             /\ track' = TrackAfter(track, FALSE, frameAction, m)
             /\ UNCHANGED feed

NextFrames ==
    \/ StreamFrameMarker
    \/ StreamSurfaceFrameMarker

InitFrames ==
    /\ pre38 \in BOOLEAN
    /\ settings \in [FrameAcknowledge : WideAckSettings]
    /\ InitIdle({<<4, 4>>})
    /\ InitAssist
    /\ feed = [all |-> {}, pending |-> {}]
    /\ disp = <<Monitor(0, 0, 0, 0)>>

SpecFrames == InitFrames /\ [][NextFrames]_vars

(***************************************************************************)
(* Desktop resizes between and within paint bursts.                        *)
(***************************************************************************)

NextResize ==
    \/ BeginPaint
    \/ EndPaint
    \/ DesktopResize
    \/ Invalidate
    \/ SuppressOutput

InitResize ==
    /\ pre38 \in BOOLEAN
    /\ settings = [FrameAcknowledge |-> U32(0, 0)]
    /\ InitIdle({<<4, 4>>})
    /\ InitAssist
    /\ feed = [all |-> {}, pending |-> {}]
    /\ disp = <<Monitor(0, 0, 0, 0)>>

SpecResize == InitResize /\ [][NextResize]_vars

(***************************************************************************)
(* Desktop resizes over monitor collections: none to MaxMonitors monitors, *)
(* initialized or not, with fields at and around the ends of the 32-bit    *)
(* range.                                                                  *)
(***************************************************************************)

MaxMonitors == 3

LayoutMonitors ==
    { Monitor(0, 0, 1920, 1080), Monitor(0, 1920, 0, 1080),
      Monitor(1920, 0, 1080, 0),
      Monitor(INT_MIN, INT_MIN, INT_MIN, INT_MIN),
      Monitor(-1, INT_MAX, 1, INT_MAX) }

LayoutDisps == UNION {[1..n -> LayoutMonitors] : n \in 0..MaxMonitors}

NextLayout == DesktopResize

InitLayout ==
    /\ pre38 \in BOOLEAN
    /\ settings = [FrameAcknowledge |-> U32(0, 0)]
    /\ InitIdle({<<4, 4>>})
    /\ InitAssist
    /\ feed = [all |-> {}, pending |-> {}]
    /\ disp \in LayoutDisps

SpecLayout == InitLayout /\ [][NextLayout]_vars

(***************************************************************************)
(* Desktop resizes with a monitor table that changes between them. The     *)
(* table is rdp_client->disp->monitors, which the serializer reads and the *)
(* display-update channel writes; a session starts with the example table. *)
(***************************************************************************)

TableMonitors == {Monitor(0, 0, 1920, 1080), Monitor(0, 1920, 0, 1080)}

Tables == UNION {[1..n -> TableMonitors] : n \in 0..MaxMonitors}

\* The table is replaced after a desktop-resize has sent the layout of the
\* table before it; what that resize did stays on record until the next one.
MonitorsUpdate ==
    /\ aborted = "none"
    /\ last.op = "desktop_resize"
    /\ \E table \in Tables \ {disp} : disp' = table
    /\ last' = [last EXCEPT !.op = "monitors_update"]
    /\ UNCHANGED <<pre38, settings, aborted, current_context, gdi_modified, gdi,
                   ctx, layer, frames, peak, feed, track, copilot, camera, reply>>

NextMonitors == DesktopResize \/ MonitorsUpdate

InitMonitors ==
    /\ pre38 \in BOOLEAN
    /\ settings = [FrameAcknowledge |-> U32(0, 0)]
    /\ InitIdle({<<4, 4>>})
    /\ InitAssist
    /\ feed = [all |-> {}, pending |-> {}]
    /\ disp = <<Monitor(0, 0, 1920, 1080), Monitor(0, 1920, 0, 1080)>>

SpecMonitors == InitMonitors /\ [][NextMonitors]_vars

(***************************************************************************)
(* Copilot sessions: workflows are registered, recorded and run. The       *)
(* caller registers at most MaxRegistered workflows of its own and records *)
(* until MaxRecordings recordings are in the registry; MaxCommands         *)
(* commands are typed in all.                                              *)
(***************************************************************************)

MaxRegistered == 2

MaxRecordings == 1

MaxCommands == 2

\* The copilot argument of a call: the session's copilot, or NULL.
Selves == {"copilot", NULL}

Commands == {"ls"}

UserWorkflow ==
    [name |-> "a", protocol |-> NULL,
     steps |-> <<[description |-> "list", command |-> "ls"]>>]

RecordNames == {"a", LongName}

ExecNames == RecordNames \cup {LongNameCut, "system-diagnostics"}

\* The variables no copilot or camera call touches.
gdi_vars == <<pre38, settings, aborted, current_context, gdi_modified, gdi, ctx,
              layer, frames, peak, last, feed, track, disp>>

\* The copilot a call leaves, and the record of the call.
Answer(op, args, k) ==
    \E r \in {k} :
        /\ copilot' = r.copilot
        /\ reply' = [op |-> op, ret |-> r.ret, sent |-> r.sent,
                     written |-> r.written, args |-> args]
        /\ UNCHANGED <<gdi_vars, camera>>

\* The workflows of the registry that were recorded in this session.
Recorded(workflows) ==
    {i \in 1..Len(workflows) :
        /\ workflows[i] # UserWorkflow
        /\ \A j \in 1..Len(BuiltinWorkflows) : workflows[i] # BuiltinWorkflows[j]}

InitWorkflows ==
    /\ copilot.workflows = <<>>
    /\ Answer("init_workflows", <<>>, guac_copilot_init_workflows(K, "copilot"))

RegisterWorkflow ==
    /\ Cardinality({i \in 1..Len(copilot.workflows) :
                       copilot.workflows[i] = UserWorkflow}) < MaxRegistered
    /\ \E self \in Selves, workflow \in {UserWorkflow, NullWorkflow} :
          Answer("register_workflow", <<self, workflow>>,
                 guac_copilot_register_workflow(K, self, workflow))

ExecuteWorkflow ==
    \E self \in Selves, workflow_name \in ExecNames \cup {NULL} :
        Answer("execute_workflow", <<self, workflow_name>>,
               guac_copilot_execute_workflow(K, self, workflow_name))

StartRecording ==
    /\ Cardinality(Recorded(copilot.workflows)) < MaxRecordings
    /\ \E self \in Selves, workflow_name \in RecordNames \cup {NULL} :
          Answer("start_recording", <<self, workflow_name>>,
                 guac_copilot_start_recording(K, self, workflow_name))

StopRecording ==
    \E self \in Selves :
        Answer("stop_recording", <<self>>, guac_copilot_stop_recording(K, self))

AddCommand ==
    /\ Len(copilot.context.command_history) < MaxCommands
    /\ \E self \in Selves, command \in Commands \cup {NULL} :
          Answer("add_command", <<self, command>>,
                 guac_copilot_add_command(K, self, command))

CommandTypes ==
    {"GUAC_COPILOT_CMD_SUGGEST", "GUAC_COPILOT_CMD_EXECUTE_WORKFLOW",
     "GUAC_COPILOT_CMD_CONTEXT_HELP", "GUAC_COPILOT_CMD_GENERATE_SCRIPT",
     "GUAC_COPILOT_CMD_QUICK_ACTION", "GUAC_COPILOT_CMD_TROUBLESHOOT",
     "GUAC_COPILOT_CMD_RECORD_WORKFLOW", "GUAC_COPILOT_CMD_LIST_WORKFLOWS",
     "GUAC_COPILOT_CMD_SESSION_INSIGHTS"}

\* The command_data sent with a command of that type.
CommandData(command_type) ==
    CASE command_type = "GUAC_COPILOT_CMD_EXECUTE_WORKFLOW" -> {"a", NULL}
      [] command_type = "GUAC_COPILOT_CMD_RECORD_WORKFLOW" -> {"a", NULL}
      [] command_type = "GUAC_COPILOT_CMD_SUGGEST" -> {"l", NULL}
      [] OTHER -> {NULL}

\* guac_copilot_query_openai without libcurl.
NoAnswer == [ret |-> -1, response |-> "Error: OpenAI integration requires libcurl"]

HandleCommand ==
    \E self \in Selves, command_type \in CommandTypes :
        /\ (command_type = "GUAC_COPILOT_CMD_RECORD_WORKFLOW" /\ ~copilot.recording)
           => Cardinality(Recorded(copilot.workflows)) < MaxRecordings
        /\ \E command_data \in CommandData(command_type) :
              Answer("handle_command", <<self, command_type, command_data>>,
                     guac_copilot_handle_command(K, self, command_type, command_data,
                                                 NoAnswer))

NextCopilot ==
    \/ HandleCommand
    \/ InitWorkflows
    \/ RegisterWorkflow
    \/ ExecuteWorkflow
    \/ StartRecording
    \/ StopRecording
    \/ AddCommand

InitCopilot ==
    /\ pre38 = FALSE
    /\ settings = [FrameAcknowledge |-> U32(0, 0)]
    /\ InitIdle({<<4, 4>>})
    /\ feed = [all |-> {}, pending |-> {}]
    /\ disp = <<Monitor(0, 0, 0, 0)>>
    /\ copilot = guac_copilot_alloc(NULL)
    /\ camera = NullCamera
    /\ reply = NoReply

SpecCopilot == InitCopilot /\ [][NextCopilot]_vars

(***************************************************************************)
(* The context of a copilot and the suggestions made from it. The copilot  *)
(* starts with one of the API keys of the settings and one of the command  *)
(* histories; suggestions are asked for up to MaxSuggestions of them.      *)
(***************************************************************************)

MaxSuggestions == 4

GUAC_COPILOT_MAX_COMMAND_LENGTH == 1024

RECURSIVE Repeat(_, _)
\* The text n times over.
Repeat(text, n) ==
    IF n = 0 THEN ""
    ELSE LET half == Repeat(text, n \div 2)
         IN half \o half \o (IF n % 2 = 1 THEN text ELSE "")

\* A command that fills a buffer of GUAC_COPILOT_MAX_COMMAND_LENGTH.
LongCommand == Repeat("x", GUAC_COPILOT_MAX_COMMAND_LENGTH - 1)

ApiKeys == {NULL, "sk-key"}

Histories == {<<>>, <<"ls">>, <<LongCommand>>, <<LongCommand, LongCommand>>}

Inputs == {NULL, "", "ls", "cd /", "pwd"}

\* What guac_copilot_query_openai returns and leaves in ai_response.
Answers ==
    {NoAnswer,
     [ret |-> 0, response |-> "ls -la\n  pwd\n\n \ncd /tmp\nwhoami\nuptime"],
     [ret |-> 0, response |-> " \n\t"]}

\* The other arguments of a call: one value when the call is refused at once.
ArgsOf(refused, values) == IF refused THEN {NULL} ELSE values

UpdateContext ==
    \E self \in Selves, protocol \in {NULL, "ssh", "rdp", "vnc"},
       current_dir \in {NULL, "/tmp"}, os_type \in {NULL, "Linux"} :
        Answer("update_context", <<self, protocol, current_dir, os_type>>,
               guac_copilot_update_context(K, self, protocol, current_dir, os_type))

\* What a call that wrote outside prompt can return: anything, the count it
\* would have returned included.
Undefined(k, max_suggestions) ==
    {k} \cup {Return([k EXCEPT !.written = <<>>], count) :
                 count \in {-1, max_suggestions + 1}}

SuggestCommands ==
    \E self \in Selves, suggestions \in {"suggestions", NULL} :
        LET refused == self = NULL \/ suggestions = NULL
        IN \E input \in ArgsOf(refused, Inputs),
              max_suggestions \in 0..MaxSuggestions,
              answer \in IF refused THEN {NoAnswer} ELSE Answers :
               LET key == copilot.ai_api_key
                   done == guac_copilot_suggest_commands(
                               K, self, input, suggestions, max_suggestions, answer)
               IN IF /\ ~refused
                     /\ key # NULL
                     /\ strlen(key) > 0
                     /\ prompt_overflows(copilot.context)
                  THEN \E k \in Undefined(done, max_suggestions) :
                          Answer("suggest_commands",
                                 <<self, input, suggestions, max_suggestions>>, k)
                  ELSE Answer("suggest_commands",
                              <<self, input, suggestions, max_suggestions>>, done)

NextContext ==
    \/ UpdateContext
    \/ SuggestCommands

InitContext ==
    /\ pre38 = FALSE
    /\ settings = [FrameAcknowledge |-> U32(0, 0)]
    /\ InitIdle({<<4, 4>>})
    /\ feed = [all |-> {}, pending |-> {}]
    /\ disp = <<Monitor(0, 0, 0, 0)>>
    /\ \E key \in ApiKeys, command_history \in Histories :
          copilot = [guac_copilot_alloc(key) EXCEPT
                        !.context.command_history = command_history]
    /\ camera = NullCamera
    /\ reply = NoReply

SpecContext == InitContext /\ [][NextContext]_vars

(***************************************************************************)
(* Long sessions: the copilot has been given a number of commands, up to   *)
(* the capacity of a recorded workflow, with or without a recording        *)
(* started before the first of them, and is given MaxAdds more calls.      *)
(* The reply keeps the log of the commands given since the copilot was     *)
(* allocated and since the recording was started.                          *)
(***************************************************************************)

MaxAdds == 3

\* The commands given before the first state: none, or as many as reach
\* the capacity of the history or of a recorded workflow, or one fewer.
Priors == {0, GUAC_COPILOT_HISTORY_SIZE - 1, GUAC_COPILOT_HISTORY_SIZE,
           GUAC_COPILOT_MAX_WORKFLOW_STEPS - 1, GUAC_COPILOT_MAX_WORKFLOW_STEPS}

\* The i-th command of a session, different from every other.
CommandNo(i) == "c" \o ToString(i)

Numbered(n) == [i \in 1..n |-> CommandNo(i)]

LaterCommands == {"ls", "pwd"}

RECURSIVE CommandsFrom(_, _, _)
\* The copilot after the calls of guac_copilot_add_command that give the
\* commands numbered first to last, one call after the other.
CommandsFrom(k, first, last_one) ==
    IF first > last_one THEN k
    ELSE IF first = last_one
    THEN guac_copilot_add_command(k, "copilot", CommandNo(first))
    ELSE LET middle == (first + last_one) \div 2
             half == CommandsFrom(k, first, middle)
         IN \* the first half is evaluated before the second is entered
            IF half.ret = 0 THEN CommandsFrom(half, middle + 1, last_one) ELSE half

\* The copilot after n calls of guac_copilot_add_command.
AfterCommands(k, n) == CommandsFrom(k, 1, n)

\* The copilot a call leaves, the record of the call, and the logs.
LoggedAnswer(op, args, k, submitted, recorded) ==
    \E r \in {k} :
        /\ copilot' = r.copilot
        /\ reply' = [op |-> op, ret |-> r.ret, sent |-> r.sent,
                     written |-> r.written, args |-> args, calls |-> reply.calls + 1,
                     submitted |-> submitted, recorded |-> recorded]
        /\ UNCHANGED <<gdi_vars, camera>>

\* A call that passes a copilot and a command has given a command.
SubmitCommand ==
    /\ reply.calls < MaxAdds
    /\ \E self \in Selves, command \in LaterCommands \cup {NULL} :
          LET given == IF self = NULL \/ command = NULL THEN <<>> ELSE <<command>>
          IN LoggedAnswer("add_command", <<self, command>>,
                          guac_copilot_add_command(K, self, command),
                          reply.submitted \o given, reply.recorded \o given)

RecordingStarts ==
    /\ reply.calls < MaxAdds
    /\ Cardinality(Recorded(copilot.workflows)) < MaxRecordings
    /\ LoggedAnswer("start_recording", <<"copilot", "a">>,
                    guac_copilot_start_recording(K, "copilot", "a"),
                    reply.submitted,
                    IF copilot.recording THEN reply.recorded ELSE <<>>)

RecordingStops ==
    /\ reply.calls < MaxAdds
    /\ LoggedAnswer("stop_recording", <<"copilot">>,
                    guac_copilot_stop_recording(K, "copilot"),
                    reply.submitted, reply.recorded)

NextHistory ==
    \/ SubmitCommand
    \/ RecordingStarts
    \/ RecordingStops

InitHistory ==
    /\ pre38 = FALSE
    /\ settings = [FrameAcknowledge |-> U32(0, 0)]
    /\ InitIdle({<<4, 4>>})
    /\ feed = [all |-> {}, pending |-> {}]
    /\ disp = <<Monitor(0, 0, 0, 0)>>
    /\ camera = NullCamera
    /\ \E prior \in Priors, recording \in BOOLEAN :
          LET fresh == [copilot |-> guac_copilot_alloc(NULL), ret |-> 0,
                        sent |-> <<>>, written |-> <<>>]
              started == IF recording
                         THEN guac_copilot_start_recording(fresh, "copilot", "a")
                         ELSE fresh
          IN /\ copilot = AfterCommands(started, prior).copilot
             /\ reply = [op |-> "init", ret |-> 0, sent |-> <<>>, written |-> <<>>,
                         args |-> <<>>, calls |-> 0,
                         submitted |-> Numbered(prior),
                         recorded |-> IF recording THEN Numbered(prior) ELSE <<>>]

SpecHistory == InitHistory /\ [][NextHistory]_vars

(***************************************************************************)
(* A session's camera: the module is allocated, the plugin starts the      *)
(* stream, the channel connects and disconnects, blobs arrive.             *)
(***************************************************************************)

\* The descriptors mkstemp returns: -1 when it fails.
Descriptors == {-1, 3, 4}

Lengths == {-1, 0, 1, 2}

\* The module a camera call leaves, and the record of the call.
CameraAnswer(op, args, module, k) ==
    /\ camera' = module
    /\ reply' = [op |-> op, ret |-> k.ret, sent |-> k.sent, written |-> k.written,
                 args |-> args]
    /\ UNCHANGED <<gdi_vars, copilot>>

CameraAlloc ==
    /\ camera = NullCamera
    /\ CameraAnswer("camera_alloc", <<>>, guac_rdp_camera_alloc, K)

\* guac_rdp_camera_load_plugin starts the stream once; it is started again
\* only after it was stopped.
StartStream ==
    /\ IF camera = NullCamera THEN TRUE ELSE camera.device_fd = -1
    /\ \E fd \in Descriptors :
          LET started == guac_rdp_camera_start_stream(camera, fd)
          IN CameraAnswer("start_stream", <<fd>>, started.camera,
                          Return(K, started.ret))

StopStream ==
    CameraAnswer("stop_stream", <<>>, guac_rdp_camera_stop_stream(camera),
                 [K EXCEPT !.sent = stop_stream_calls(camera)])

ChannelConnected ==
    \E name \in {"camera", "rdpsnd"} :
        CameraAnswer("channel_connected", <<name>>,
                     guac_rdp_camera_channel_connected(camera, name), K)

ChannelDisconnected ==
    \E name \in {"camera", "rdpsnd"} :
        CameraAnswer("channel_disconnected", <<name>>,
                     guac_rdp_camera_channel_disconnected(camera, name), K)

BlobHandler ==
    \E data \in {"frame", NULL}, length \in Lengths :
        \E bytes_written \in {-1} \cup 0..(IF length > 0 THEN length ELSE 0) :
            CameraAnswer("blob", <<data, length, bytes_written>>, camera,
                         guac_rdp_camera_blob_handler(K, camera, data, length,
                                                      bytes_written))

EndHandler ==
    CameraAnswer("end", <<>>, guac_rdp_camera_end_handler(camera), K)

NextCamera ==
    \/ CameraAlloc
    \/ StartStream
    \/ StopStream
    \/ ChannelConnected
    \/ ChannelDisconnected
    \/ BlobHandler
    \/ EndHandler

InitCamera ==
    /\ pre38 = FALSE
    /\ settings = [FrameAcknowledge |-> U32(0, 0)]
    /\ InitIdle({<<4, 4>>})
    /\ feed = [all |-> {}, pending |-> {}]
    /\ disp = <<Monitor(0, 0, 0, 0)>>
    /\ InitAssist

SpecCamera == InitCamera /\ [][NextCamera]_vars

(***************************************************************************)
(* Properties.                                                             *)
(***************************************************************************)

MinOf(S) == CHOOSE x \in S : \A y \in S : x <= y

MaxOf(S) == CHOOSE x \in S : \A y \in S : x >= y

\* The bounding box of the non-empty rectangles of a set, whatever their order.
BBoxSet(S) ==
    LET ne == {r \in S : r.right > r.left /\ r.bottom > r.top}
    IN IF ne = {} THEN EmptyRect
       ELSE [left   |-> MinOf({r.left : r \in ne}),
             top    |-> MinOf({r.top : r \in ne}),
             right  |-> MaxOf({r.right : r \in ne}),
             bottom |-> MaxOf({r.bottom : r \in ne})]

\* min(x + w, hi) over the integers, for w >= 0 and hi >= 0.
UpTo(x, w, hi) == IF x <= hi - w THEN x + w ELSE hi

\* The intersection over the integers of [x, x+w) x [y, y+h) with bounds b.
Intersection(r, b) ==
    LET c == [left   |-> Max(r.x, b.left),
              top    |-> Max(r.y, b.top),
              right  |-> UpTo(r.x, r.w, b.right),
              bottom |-> UpTo(r.y, r.h, b.bottom)]
    IN IF c.right <= c.left \/ c.bottom <= c.top THEN EmptyRect ELSE c

Inside(r, b) ==
    \/ r = EmptyRect
    \/ /\ b.left <= r.left /\ r.left < r.right /\ r.right <= b.right
       /\ b.top <= r.top /\ r.top < r.bottom /\ r.bottom <= b.bottom

SeqSet(q) == {q[i] : i \in 1..Len(q)}

PaintOps == {"begin_paint", "end_paint", "desktop_resize"}

\* The names of the steps of a desktop-resize, in the order they completed.
StepNames(calls) == [i \in 1..Len(calls) |-> calls[i][1]]

\* The steps of a desktop-resize that returns (gdi.c:229-262).
ResizeSteps == <<"open_raw", "gdi_resize", "set_context", "layer_resize",
                 "close_raw", "send_set", "set_cursor">>

C2_BeginPaintWhileOpenAborts ==
    [][(last'.op = "begin_paint" /\ current_context # NULL) =>
          /\ aborted' = "begin_paint"
          /\ last'.ev = ZeroEv
          /\ UNCHANGED <<current_context, gdi_modified, gdi, ctx, layer, frames, peak>>]_vars

\* C2 witness: the assertion of begin-paint has fired with one context open.
C2_Witness ==
    /\ aborted = "begin_paint" /\ last.op = "begin_paint" /\ last.wasOpen
    /\ current_context = CTX /\ layer.open = 1 /\ peak = 1

C4_NotifyOnlyWhenClosed == last.ev.notifies > 0 => ~last.wasOpen

\* C4 amended: a frame-ready notification is emitted only by a frame marker
\* that is not a frame start, whether or not a raw context is open at that
\* time; begin-paint, end-paint and desktop-resize never notify, and a marker
\* leaves the paint state as it was.
C4_NotifyOnlyByMarker ==
    /\ last.ev.notifies > 0 => last.op \in {"frame_end", "frame_other", "surface_end"}
    /\ last.op \in PaintOps => last.ev.notifies = 0
    /\ last.op \in {"frame_start", "frame_end", "frame_other",
                    "surface_begin", "surface_end", "surface_other"} =>
           /\ last.ev.opens = 0 /\ last.ev.closes = 0
           /\ last.wasOpen <=> current_context # NULL

\* C4 witness: a frame-end marker notified the render thread inside a paint burst.
C4_Witness ==
    /\ last.op = "frame_end" /\ last.ev.notifies = 1 /\ last.wasOpen
    /\ current_context = CTX /\ layer.open = 1

\* C5: end-paint with no context open returns having changed nothing.
C5_EndPaintIdleNoOp ==
    [][(last'.op = "end_paint" /\ current_context = NULL) =>
          /\ last'.ev = ZeroEv
          /\ UNCHANGED <<aborted, current_context, gdi_modified, gdi, ctx, layer,
                         frames, peak>>]_vars

\* C5 witness: an end-paint ran with no context open while the engine's
\* invalid region was set, and the region is still set.
C5_Witness ==
    /\ last.op = "end_paint" /\ ~last.wasOpen /\ aborted = "none"
    /\ current_context = NULL /\ ~gdi.invalid.null /\ layer.open = 0

\* C6: an end-paint that finds a context open and returns closes it exactly
\* once and resets the reference, leaving the layer idle, so that a begin-paint
\* that follows it passes the assertion and opens a context.
C6_EndPaintAlwaysCloses ==
    [][/\ (last'.op = "end_paint" /\ current_context # NULL /\ aborted' = "none") =>
             /\ current_context' = NULL
             /\ last'.ev.closes = 1 /\ last'.ev.opens = 0
             /\ layer'.open = 0
       /\ (last.op = "end_paint" /\ last'.op = "begin_paint" /\ aborted = "none") =>
             /\ aborted' = "none"
             /\ current_context' = CTX /\ layer'.open = 1]_vars

\* C6 witness: an end-paint closed its context on the suppressed-output path.
C6_Witness ==
    /\ last.op = "end_paint" /\ last.wasOpen /\ gdi.suppressOutput
    /\ current_context = NULL /\ layer.open = 0 /\ last.ev.closes = 1

C8_NullRegionCommitsNothing ==
    [][(last'.op = "end_paint" /\ current_context # NULL /\ gdi.invalid.null) =>
          /\ last'.ev.closes = 1
          /\ last'.ev.merged = <<>>
          /\ last'.ev.committed = <<EmptyRect>>
          /\ ctx'.dirty = EmptyRect
          /\ gdi_modified' = gdi_modified
          /\ layer'.dirty = layer.dirty]_vars

\* C8 witness: a context was closed over a null invalid region while the
\* layer held an earlier, non-empty committed dirty state, and no pixel
\* change was flagged.
C8_Witness ==
    /\ last.op = "end_paint" /\ last.wasOpen /\ ~gdi.suppressOutput
    /\ last.ev.merged = <<>> /\ last.ev.closes = 1
    /\ layer.dirty # EmptyRect

\* C9: for every region with 32-bit x, y and w, h in 0..INT_MAX, the
\* rectangle end-paint merges lies inside the context bounds and is the
\* intersection, over the integers, of the region with the bounds.
C9_ClipIsIntersection ==
    [][(/\ last'.op = "end_paint" /\ aborted' = "none"
        /\ current_context # NULL /\ ~gdi.suppressOutput /\ ~gdi.invalid.null) =>
          /\ Len(last'.ev.merged) = 1
          /\ last'.ev.merged[1] = Intersection(gdi.invalid, ctx.bounds)
          /\ Inside(last'.ev.merged[1], ctx.bounds)
          /\ last'.ev.committed = <<last'.ev.merged[1]>>]_vars

\* C9 witness: a region whose right and bottom edges lie past INT_MAX was
\* merged as a non-empty rectangle reaching the far corner of the bounds.
C9_Witness ==
    /\ last.op = "end_paint" /\ last.wasOpen /\ aborted = "none"
    /\ gdi.invalid.x > INT_MAX - gdi.invalid.w
    /\ gdi.invalid.y > INT_MAX - gdi.invalid.h
    /\ Len(last.ev.merged) = 1
    /\ last.ev.merged[1] # EmptyRect
    /\ last.ev.merged[1].right = ctx.bounds.right
    /\ last.ev.merged[1].bottom = ctx.bounds.bottom

\* C10: every frame-end signal, explicit or surface, notifies the render
\* thread exactly once, and every frame-start signal not at all.
C10_OneNotifyPerFrameEnd ==
    /\ last.op \in {"frame_end", "surface_end"} => last.ev.notifies = 1
    /\ last.op \in {"frame_start", "surface_begin"} => last.ev.notifies = 0

\* C10 witness: a surface end-of-frame marker has notified once.
C10_Witness ==
    /\ last.op = "surface_end" /\ last.ev.notifies = 1 /\ frames >= 1

\* C11 as stated: the notifications of a marker stream are as many as the
\* tracker's transitions from InFrame to AwaitingFrame, so that a frame-end
\* signal received in AwaitingFrame notifies nobody.
C11_NotifyPerCompletedFrame == track.notified = track.completed

\* C11, amended: the notifications of a marker stream are as many as its
\* markers that the handlers do not take for a frame start: every frame-end
\* signal, whatever the tracker's state, and every explicit marker whose
\* action is neither start nor end.
C11_NotifyPerEndSignal ==
    /\ track.notified = track.ends + track.others
    /\ track.completed <= track.notified

\* C11 witness: two frame-end signals were received with no frame-start
\* before either, and each one notified.
C11_Witness ==
    /\ track.ends = 2 /\ track.markers = 2 /\ track.completed = 0
    /\ track.notified = 2

\* C12: in every state, an explicit marker and a surface marker carrying the
\* same action code, be it start, end or any other value, are classified
\* alike: either both notify the render thread or neither does.
C12_SameClassification ==
    aborted = "none" =>
        \A action \in FrameActions, frameId \in FrameIds :
            guac_rdp_gdi_frame_marker(M, action).ev.notifies
                = guac_rdp_gdi_surface_frame_marker(M, action, frameId).ev.notifies

\* C13, for the thresholds from 1 to INT_MAX: a surface marker that ends a
\* frame is acknowledged exactly once, and a surface marker that does not end
\* a frame is not acknowledged.
C13_AckOnlyEndMarkers ==
    (settings.FrameAcknowledge.hi = 0 /\ settings.FrameAcknowledge.lo > 0) =>
        /\ last.op = "surface_end" => Len(last.ev.acks) = 1
        /\ last.op \in {"surface_begin", "surface_other"} => last.ev.acks = <<>>

\* C14: with a threshold of zero no acknowledgment is made, by any marker of
\* any stream of explicit and surface markers.
C14_ZeroThresholdNeverAcks ==
    U32IsZero(settings.FrameAcknowledge) =>
        /\ track.acks = 0
        /\ last.ev.acks = <<>>

\* C14 witness: under a threshold of zero a stream of several markers has
\* just handled a surface end-of-frame marker, without any acknowledgment.
C14_Witness ==
    /\ U32IsZero(settings.FrameAcknowledge)
    /\ last.op = "surface_end" /\ track.markers >= 2
    /\ track.acks = 0

\* C15: a surface end-of-frame marker is acknowledged exactly when the
\* UINT32 threshold is not zero, the values above INT_MAX included.
C15_AckIffNonZero ==
    last.op = "surface_end" =>
        ((last.ev.acks # <<>>) <=> ~U32IsZero(settings.FrameAcknowledge))

\* C16: built against FreeRDP before 3.8.0, a desktop-resize that arrives
\* while a paint burst holds the context aborts at its assertion: before the
\* context is acquired, before the buffer is reallocated, and before any
\* layer resize, monitor-layout or cursor output.
C16_Pre38ResizeInBurstAborts ==
    [][(/\ aborted = "none" /\ last'.op = "desktop_resize"
        /\ pre38 /\ current_context # NULL) =>
          /\ aborted' = "desktop_resize"
          /\ last'.ev = ZeroEv
          /\ UNCHANGED <<current_context, gdi_modified, gdi, ctx, layer, frames, peak>>]_vars

\* C16 witness: a pre-3.8 desktop-resize has aborted inside a paint burst,
\* having made no call.
C16_Witness ==
    /\ pre38 /\ aborted = "desktop_resize"
    /\ last.op = "desktop_resize" /\ last.wasOpen
    /\ last.ev.calls = <<>> /\ layer.open = 1

\* C17: a desktop-resize whose gdi_resize leaves a null buffer handle aborts
\* straight after it: the context's buffer, stride and bounds and the layer's
\* size are as before the resize, and no monitor layout or cursor was sent.
C17_NullBufferAborts ==
    [][(/\ aborted = "none" /\ last'.op = "desktop_resize"
        /\ gdi'.primary_buffer = 0) =>
          /\ aborted' = "desktop_resize_buffer"
          /\ StepNames(last'.ev.calls) = <<"open_raw", "gdi_resize">>
          /\ ctx'.buffer = ctx.buffer /\ ctx'.buffer # 0
          /\ ctx'.stride = ctx.stride
          /\ ctx'.bounds = ctx.bounds
          /\ layer'.width = layer.width /\ layer'.height = layer.height
          /\ layer'.buffer # 0]_vars

\* C17 witness: gdi_resize succeeded for a new size but left no buffer, and
\* the desktop-resize aborted with the layer at its old size.
C17_Witness ==
    /\ aborted = "desktop_resize_buffer" /\ last.op = "desktop_resize"
    /\ gdi.primary_buffer = 0 /\ last.ev.retval
    /\ gdi.width = 2 /\ layer.width = 4
    /\ ctx.buffer # 0

\* C18 as stated: a desktop-resize whose gdi_resize reports failure does not
\* go on to resize the layer, send the monitor layout or reset the cursor.
C18_FailedResizeStops ==
    (last.op = "desktop_resize" /\ ~last.ev.retval) =>
        \A i \in 1..Len(last.ev.calls) :
            last.ev.calls[i][1] \notin {"layer_resize", "send_set", "set_cursor"}

\* C18, amended: a desktop-resize whose gdi_resize reports failure stops
\* only if the buffer handle is null; otherwise it runs every later step,
\* the layer resize, the monitor layout and the cursor included, and hands
\* the failure back to the engine as its return value.
C18_FailedResizeContinues ==
    (last.op = "desktop_resize" /\ ~last.ev.retval) =>
        IF gdi.primary_buffer = 0
        THEN /\ aborted = "desktop_resize_buffer"
             /\ StepNames(last.ev.calls) = <<"open_raw", "gdi_resize">>
        ELSE /\ aborted = "none"
             /\ StepNames(last.ev.calls) = ResizeSteps

\* C18 witness: gdi_resize reported failure with a buffer in place, and the
\* desktop-resize sent the monitor layout and reset the cursor all the same.
C18_Witness ==
    /\ last.op = "desktop_resize" /\ ~last.ev.retval
    /\ aborted = "none" /\ gdi.primary_buffer # 0
    /\ StepNames(last.ev.calls) = ResizeSteps

\* C19: a desktop-resize to (W', H') that succeeds leaves the engine and the
\* layer at W' x H'; from then on the layer has the engine's size, an open
\* paint burst clips to [0, 0, W', H'), and end-paint merges the part of the
\* region inside those bounds, which is nothing for a region outside them.
C19_BoundsFollowResize ==
    [][/\ (last'.op = "desktop_resize" /\ aborted' = "none" /\ last'.ev.retval) =>
             /\ <<gdi'.width, gdi'.height>> = last'.ev.requested
             /\ <<layer'.width, layer'.height>> = last'.ev.requested
       /\ aborted' = "none" =>
             /\ layer'.width = gdi'.width /\ layer'.height = gdi'.height
             /\ current_context' # NULL =>
                   ctx'.bounds = guac_rect_init(0, 0, gdi'.width, gdi'.height)
       /\ (/\ last'.op = "end_paint" /\ aborted' = "none"
           /\ current_context # NULL /\ ~gdi.suppressOutput /\ ~gdi.invalid.null) =>
             /\ last'.ev.merged =
                   <<Intersection(gdi.invalid,
                                  guac_rect_init(0, 0, layer.width, layer.height))>>
             /\ last'.ev.committed = last'.ev.merged]_vars

\* C19 witness: after a resize from 4 x 4 to 2 x 3, a burst ended whose
\* region lies inside the old bounds and outside the new ones: it was
\* clipped away.
C19_Witness ==
    /\ last.op = "end_paint" /\ last.wasOpen /\ aborted = "none"
    /\ layer.width = 2 /\ layer.height = 3
    /\ gdi.invalid.x = 3 /\ gdi.invalid.y = 3
    /\ gdi.invalid.w = 1 /\ gdi.invalid.h = 1
    /\ last.ev.merged = <<EmptyRect>>
    /\ last.ev.committed = <<EmptyRect>>

\* C20: a desktop-resize that returns has run each of its steps once and in
\* this order: acquire the context, reallocate the buffer, update the
\* context, resize the layer, close the context, send the monitor layout,
\* reset the cursor; the layout and the cursor are sent with no context open.
\* One that aborts has run a prefix of them.
C20_ResizeStepsInOrder ==
    last.op = "desktop_resize" =>
        /\ Len(last.ev.calls) <= Len(ResizeSteps)
        /\ StepNames(last.ev.calls) = SubSeq(ResizeSteps, 1, Len(last.ev.calls))
        /\ aborted = "none" =>
              /\ last.ev.calls =
                    << <<"open_raw", IF last.wasOpen THEN 2 ELSE 1>>,
                       <<"gdi_resize", 1>>, <<"set_context", 1>>,
                       <<"layer_resize", 1>>, <<"close_raw", 0>>,
                       <<"send_set", 0>>, <<"set_cursor", 0>> >>
              /\ last.ev.opens = 1
              /\ last.ev.closes = IF last.wasOpen THEN 2 ELSE 1

\* C20 witness: a desktop-resize that arrived inside a paint burst has
\* returned, after all seven steps.
C20_Witness ==
    /\ last.op = "desktop_resize" /\ last.wasOpen /\ aborted = "none"
    /\ Len(last.ev.calls) = 7 /\ layer.open = 0

\* The number a decimal text stands for, gathered below zero so that the
\* text of INT_MIN can be read.
DigitValue(c) == CHOOSE d \in 0..9 : Digits[d + 1] = c

RECURSIVE NegValue(_)
NegValue(text) ==
    IF text = <<>> THEN 0
    ELSE NegValue(SubSeq(text, 1, Len(text) - 1)) * 10 - DigitValue(text[Len(text)])

ParseDec(text) ==
    IF text[1] = "-" THEN NegValue(Tail(text)) ELSE -NegValue(text)

\* The indexes, from 0, of the monitors whose width and height are not zero.
Initialized(monitors) ==
    {i \in 0..(Len(monitors) - 1) :
        monitors[i + 1].requested_width # 0 /\ monitors[i + 1].requested_height # 0}

RECURSIVE JoinEntries(_, _)
\* The entries of the monitors of indexes S, lowest index first, with a comma
\* between every two.
JoinEntries(monitors, S) ==
    IF S = {} THEN <<>>
    ELSE LET i == MaxOf(S)
             before == JoinEntries(monitors, S \ {i})
         IN before \o (IF before = <<>> THEN <<>> ELSE <<",">>)
                   \o MonitorEntry(i, monitors[i + 1])

ExampleDisp == <<Monitor(0, 0, 1920, 1080), Monitor(0, 1920, 0, 1080)>>

ExampleLayout ==
    <<"{", "\"", "0", "\"", ":", "{", "\"", "l", "e", "f", "t", "\"", ":",
    "0", ",", "\"", "t", "o", "p", "\"", ":", "0", ",", "\"", "w", "i", "d",
    "t", "h", "\"", ":", "1", "9", "2", "0", ",", "\"", "h", "e", "i", "g",
    "h", "t", "\"", ":", "1", "0", "8", "0", "}", "}">>

\* C21: the monitor layout a desktop-resize sends is one pair of braces
\* around the entries of exactly the monitors whose width and height are
\* both non-zero, by ascending index, with a comma between every two and
\* nowhere else; every number in it reads back as the monitor's field; the
\* example collection gives the example text, and a collection with no
\* initialized monitor gives {}.
C21_LayoutOfInitializedMonitors ==
    (last.op = "desktop_resize" /\ aborted = "none") =>
        /\ last.ev.layout
              = <<"{">> \o JoinEntries(disp, Initialized(disp)) \o <<"}">>
        /\ \A i \in 1..Len(disp) :
              /\ ParseDec(Dec(disp[i].left_offset)) = disp[i].left_offset
              /\ ParseDec(Dec(disp[i].top_offset)) = disp[i].top_offset
              /\ ParseDec(Dec(disp[i].requested_width)) = disp[i].requested_width
              /\ ParseDec(Dec(disp[i].requested_height)) = disp[i].requested_height
              /\ ParseDec(Dec(i - 1)) = i - 1
        /\ disp = ExampleDisp => last.ev.layout = ExampleLayout
        /\ Initialized(disp) = {} => last.ev.layout = <<"{", "}">>

\* C21 witness: a desktop-resize has sent the layout of the example
\* collection, whose second monitor is not initialized.
C21_Witness ==
    /\ last.op = "desktop_resize" /\ aborted = "none"
    /\ disp = ExampleDisp
    /\ last.ev.layout = ExampleLayout

\* C22: every write of the serializer starts below the capacity of the
\* buffer and is written in full, for every collection of monitors and all
\* 32-bit field values: the text sent is as long as the final offset, ends
\* with the closing brace and leaves room for the terminator.
C22_LayoutNeverTruncated ==
    (last.op = "desktop_resize" /\ aborted = "none") =>
        LET built == guac_rdp_build_monitor_layout_json(disp)
        IN /\ last.ev.layout_ok
           /\ built.ok
           /\ Len(built.json) = built.pos
           /\ built.pos < built.buffer_size
           /\ last.ev.layout = built.json
           /\ last.ev.layout[Len(last.ev.layout)] = "}"

\* C22 witness: three monitors whose every field is INT_MIN, the longest
\* entries there are, were serialized in full.
C22_Witness ==
    /\ last.op = "desktop_resize" /\ aborted = "none"
    /\ Len(disp) = 3
    /\ \A i \in 1..3 : disp[i] = Monitor(INT_MIN, INT_MIN, INT_MIN, INT_MIN)
    /\ last.ev.layout_ok
    /\ Len(last.ev.layout) = 2 + 3 * 83 + 2

\* C23: whenever guac_copilot_stop_recording returns zero with a recording in
\* hand, the recorded workflow is in the registry afterwards and is the workflow
\* that running its name finds.
C23_StoppedRecordingIsSaved ==
    [][(/\ reply'.op = "stop_recording"
        /\ reply'.ret = 0
        /\ copilot.recorded_workflow # NullWorkflow)
       => LET wf == copilot.recorded_workflow
              i == FindWorkflow(copilot'.workflows, wf.name)
          IN /\ i # 0
             /\ copilot'.workflows[i] = wf]_vars

\* C24: the registry never holds more than 10 workflows; a registration with a
\* NULL argument or with 10 workflows registered returns non-zero and changes
\* nothing, and any other appends the workflow at the end and returns zero.
C24_RegistryBounded ==
    [][/\ Len(copilot'.workflows) <= 10
       /\ reply'.op = "register_workflow"
          => IF \/ reply'.args[1] = NULL
                \/ reply'.args[2] = NullWorkflow
                \/ Len(copilot.workflows) >= 10
             THEN reply'.ret # 0 /\ copilot' = copilot
             ELSE /\ reply'.ret = 0
                  /\ copilot' = [copilot EXCEPT
                                    !.workflows = Append(@, reply'.args[2])]]_vars

\* A registration refused because 10 workflows are registered.
C24_Witness ==
    /\ reply.op = "register_workflow"
    /\ reply.args[1] # NULL
    /\ reply.args[2] # NullWorkflow
    /\ reply.ret # 0
    /\ Len(copilot.workflows) = 10

\* C25: starting a recording while one is active returns non-zero and leaves
\* the active recording, its name and steps, as it was; stopping while none is
\* active returns non-zero, sends nothing and changes nothing.
C25_RecordingStateRespected ==
    [][/\ (reply'.op = "start_recording" /\ copilot.recording)
          => /\ reply'.ret # 0
             /\ copilot'.recording
             /\ copilot'.recorded_workflow = copilot.recorded_workflow
       /\ (reply'.op = "stop_recording" /\ ~copilot.recording)
          => /\ reply'.ret # 0
             /\ reply'.sent = <<>>
             /\ copilot' = copilot]_vars

\* A second start was refused while a recording with a step was active.
C25_Witness ==
    /\ reply.op = "start_recording"
    /\ reply.args[1] # NULL
    /\ reply.args[2] # NULL
    /\ reply.ret # 0
    /\ copilot.recording
    /\ copilot.recorded_workflow # NullWorkflow
    /\ copilot.recorded_workflow.name # guac_strlcpy(reply.args[2])
    /\ Len(copilot.recorded_workflow.steps) > 0

\* C27: running a registered name sends workflow_start, one workflow_step per
\* step numbered 1..n in the workflow's step order and workflow_complete, in
\* this order, and returns zero; an unknown name or a NULL argument returns
\* non-zero and sends nothing.
C27_ExecuteSendsStepsInOrder ==
    reply.op = "execute_workflow"
    => LET self == reply.args[1]
           workflow_name == reply.args[2]
           registered == {i \in 1..Len(copilot.workflows) :
                             copilot.workflows[i].name = workflow_name}
       IN IF self = NULL \/ workflow_name = NULL \/ registered = {}
          THEN reply.ret # 0 /\ reply.sent = <<>>
          ELSE /\ reply.ret = 0
               /\ \E i \in registered :
                    LET workflow == copilot.workflows[i]
                        n == Len(workflow.steps)
                    IN /\ Len(reply.sent) = n + 2
                       /\ reply.sent[1].message =
                              [type |-> "workflow_start", name |-> workflow.name,
                               steps |-> n]
                       /\ \A j \in 1..n :
                              reply.sent[j + 1].message =
                                  [type |-> "workflow_step", step |-> j,
                                   description |-> workflow.steps[j].description,
                                   command |-> workflow.steps[j].command]
                       /\ reply.sent[n + 2].message =
                              [type |-> "workflow_complete", name |-> workflow.name]

\* A workflow of six different steps was run.
C27_Witness ==
    /\ reply.op = "execute_workflow"
    /\ reply.ret = 0
    /\ Len(reply.sent) = 8
    /\ \A i, j \in 2..7 :
          i # j => reply.sent[i].message.command # reply.sent[j].message.command
    /\ reply.sent[8].message.type = "workflow_complete"

\* C26: guac_copilot_handle_command returns non-zero, having sent nothing, for
\* a NULL or disabled copilot, for a command type it does not implement and for
\* EXECUTE_WORKFLOW with a name no workflow has; and it returns non-zero for a
\* RECORD_WORKFLOW request that neither started nor stopped a recording.
C26_HandleCommandReportsErrors ==
    [][reply'.op = "handle_command"
       => LET self == reply'.args[1]
              command_type == reply'.args[2]
              command_data == reply'.args[3]
              unimplemented == {"GUAC_COPILOT_CMD_GENERATE_SCRIPT",
                                "GUAC_COPILOT_CMD_QUICK_ACTION",
                                "GUAC_COPILOT_CMD_TROUBLESHOOT"}
              unknown == \A i \in 1..Len(copilot.workflows) :
                             copilot.workflows[i].name # command_data
          IN /\ (\/ self = NULL
                 \/ ~copilot.enabled
                 \/ command_type \in unimplemented
                 \/ command_type = "GUAC_COPILOT_CMD_EXECUTE_WORKFLOW" /\ unknown)
                => reply'.ret # 0 /\ reply'.sent = <<>>
             /\ (/\ command_type = "GUAC_COPILOT_CMD_RECORD_WORKFLOW"
                 /\ copilot'.recording = copilot.recording)
                => reply'.ret # 0]_vars

\* C28: guac_copilot_update_context keeps every one of protocol, current
\* directory and OS type whose argument is NULL, stores every argument that is
\* not NULL, and modifies no other field of the context.
C28_UpdateContextReplacesGivenFields ==
    [][reply'.op = "update_context"
       => LET given == [protocol |-> reply'.args[2],
                        current_directory |-> reply'.args[3],
                        os_type |-> reply'.args[4]]
              old == copilot.context
              new == copilot'.context
          IN /\ \A f \in DOMAIN given :
                  /\ given[f] = NULL => new[f] = old[f]
                  /\ (given[f] # NULL /\ reply'.args[1] # NULL) => new[f] = given[f]
             /\ new.command_history = old.command_history
             /\ new.is_privileged = old.is_privileged
             /\ new.last_error = old.last_error]_vars

\* A protocol was stored while the directory stored earlier was kept.
C28_Witness ==
    /\ reply.op = "update_context"
    /\ reply.args[1] # NULL
    /\ reply.args[2] # NULL
    /\ reply.args[3] = NULL
    /\ copilot.context.protocol = reply.args[2]
    /\ copilot.context.current_directory # NULL
    /\ copilot.context.command_history # <<>>

\* C29: guac_copilot_suggest_commands returns a count from 0 to max_suggestions
\* and writes exactly that many suggestions.
C29_SuggestionCountInRange ==
    reply.op = "suggest_commands"
    => /\ reply.ret \in 0..reply.args[4]
       /\ Len(reply.written) = reply.ret

\* C30: a camera blob is written to the virtual device only when the camera
\* module exists, is active and has an open device descriptor; a blob received
\* while the camera is absent or inactive is dropped: the handler returns zero
\* and writes nothing.
C30_BlobWrittenOnlyWhenActive ==
    reply.op = "blob"
    => /\ reply.written # <<>>
          => /\ camera # NullCamera
             /\ camera.active
             /\ camera.device_fd # -1
             /\ \A i \in 1..Len(reply.written) :
                    reply.written[i].fd = camera.device_fd
       /\ (camera = NullCamera \/ ~camera.active)
          => reply.ret = 0 /\ reply.written = <<>>

\* A blob was written to the device of an active camera.
C30_Witness ==
    /\ reply.op = "blob"
    /\ reply.ret = 0
    /\ Len(reply.written) = 1
    /\ reply.written[1].length = reply.args[2]
    /\ camera.active

\* C31: after guac_rdp_camera_stop_stream the device descriptor is -1, the
\* virtual device path and the video stream reference are none and active is
\* 0; stopping a camera that is already so, stopped before or never started,
\* changes nothing and touches no device.
C31_StopStreamCleansUpOnce ==
    [][(reply'.op = "stop_stream" /\ camera # NullCamera)
       => LET Stopped(c) == /\ c.device_fd = -1
                            /\ c.virtual_device_path = NULL
                            /\ c.video_stream = NULL
                            /\ ~c.active
          IN /\ Stopped(camera')
             /\ Stopped(camera) => camera' = camera /\ reply'.sent = <<>>]_vars

\* A started, active camera was stopped: its device was closed and unlinked.
C31_Witness ==
    /\ reply.op = "stop_stream"
    /\ Len(reply.sent) = 2
    /\ reply.sent[1].call = "close"
    /\ reply.sent[2].call = "unlink"
    /\ camera.device_fd = -1
    /\ ~camera.active

\* C32: when desktop-resize has returned, no raw context is open on the layer
\* and the open-context reference is none, whether or not a paint burst held
\* the context when the resize began; a begin-paint that comes next acquires
\* the context and does not abort.
C32_ResizeLeavesNoOpenContext ==
    [][/\ (last'.op = "desktop_resize" /\ aborted' = "none")
          => layer'.open = 0 /\ current_context' = NULL
       /\ (/\ last.op = "desktop_resize" /\ aborted = "none"
           /\ last'.op = "begin_paint")
          => /\ aborted' = "none"
             /\ current_context' # NULL
             /\ layer'.open = 1]_vars

\* A desktop-resize that began inside a paint burst has returned: the burst's
\* context and the resize's own were both closed.
C32_Witness ==
    /\ last.op = "desktop_resize" /\ last.wasOpen /\ ~pre38
    /\ aborted = "none"
    /\ last.ev.opens = 1 /\ last.ev.closes = 2
    /\ layer.open = 0 /\ current_context = NULL

C34_SuppressedEndPaintMergesNothing ==
    [][/\ (last'.op = "end_paint" /\ current_context # NULL /\ gdi.suppressOutput)
          => /\ aborted' = "none"
             /\ last'.ev.merged = <<>>
             /\ last'.ev.committed = <<ctx.dirty>>
             /\ layer'.dirty = layer.dirty
             /\ gdi_modified' = gdi_modified
             /\ gdi'.invalid.null /\ gdi'.ninvalid = 0
             /\ current_context' = NULL
             /\ last'.ev.closes = 1 /\ layer'.open = layer.open - 1
       /\ (gdi_modified' # gdi_modified \/ last'.ev.merged # <<>>)
          => /\ gdi_modified' = 1
             /\ \/ last'.op = "end_paint"
                \/ last'.op = "desktop_resize" /\ ~pre38
             /\ current_context # NULL
             /\ ~gdi.suppressOutput
             /\ ~gdi.invalid.null]_vars

\* C34 witness: an end-paint closed its context while output was suppressed
\* and the engine had an invalid region that the assertion of the merging
\* path rejects; nothing was merged, the flag has never been set and the
\* region is now null.
C34_Witness ==
    /\ last.op = "end_paint" /\ last.wasOpen /\ aborted = "none"
    /\ gdi.suppressOutput /\ gdi.invalid.w # 0 /\ ~InvalidSizeOk(gdi.invalid)
    /\ gdi.invalid.null /\ gdi.ninvalid = 0
    /\ last.ev.merged = <<>> /\ last.ev.closes = 1
    /\ gdi_modified = 0 /\ current_context = NULL

\* C35: after any number n of commands given to guac_copilot_add_command,
\* the history holds min(n, 50) commands, never more than 50, and they are
\* the last min(n, 50) commands given, oldest first; a call on a full
\* history drops its first entry only and puts the new command last, and a
\* call without a copilot or without a command leaves the history as it is.
C35_HistoryIsBoundedFifo ==
    /\ [](LET history == copilot.context.command_history
              n == Len(reply.submitted)
          IN /\ Len(history) \in 0..GUAC_COPILOT_HISTORY_SIZE
             /\ Len(history) = Min(n, GUAC_COPILOT_HISTORY_SIZE)
             /\ history = SubSeq(reply.submitted, n - Len(history) + 1, n))
    /\ [][reply'.op = "add_command"
          => LET history == copilot.context.command_history
                 self == reply'.args[1]
                 command == reply'.args[2]
             IN copilot'.context.command_history
                   = IF self = NULL \/ command = NULL THEN history
                     ELSE IF Len(history) = GUAC_COPILOT_HISTORY_SIZE
                          THEN Tail(history) \o <<command>>
                          ELSE history \o <<command>>]_vars

\* C35 witness: 52 commands were given, the last two to a full history;
\* the history holds 50, from the third command given to the last.
C35_Witness ==
    /\ reply.op = "add_command"
    /\ Len(reply.submitted) = GUAC_COPILOT_HISTORY_SIZE + 2
    /\ Len(copilot.context.command_history) = GUAC_COPILOT_HISTORY_SIZE
    /\ copilot.context.command_history[1] = CommandNo(3)
    /\ copilot.context.command_history[GUAC_COPILOT_HISTORY_SIZE - 1] = "ls"
    /\ copilot.context.command_history[GUAC_COPILOT_HISTORY_SIZE] = "pwd"

\* C36: while a recording is active its workflow holds one step for each of
\* the first min(n, 100) commands given since the recording was started, in
\* the order of the calls, each step carrying its command as command and as
\* description; a command given to a recording of fewer than 100 steps adds
\* exactly that step, a command given to one of 100 steps adds none; no
\* workflow ever holds more than 100 steps; and a command given while no
\* recording is active leaves the registry and the recorded workflow as
\* they were and starts no recording.
C36_RecordingTakesFirstHundred ==
    /\ [](/\ copilot.recording =>
              IF copilot.recorded_workflow = NullWorkflow THEN FALSE
              ELSE LET steps == copilot.recorded_workflow.steps
                   IN /\ Len(steps) = Min(Len(reply.recorded),
                                          GUAC_COPILOT_MAX_WORKFLOW_STEPS)
                      /\ \A i \in 1..Len(steps) :
                            steps[i] = [description |-> reply.recorded[i],
                                        command |-> reply.recorded[i]]
          /\ copilot.recorded_workflow # NullWorkflow =>
                Len(copilot.recorded_workflow.steps) <= GUAC_COPILOT_MAX_WORKFLOW_STEPS
          /\ \A i \in 1..Len(copilot.workflows) :
                Len(copilot.workflows[i].steps) <= GUAC_COPILOT_MAX_WORKFLOW_STEPS)
    /\ [][reply'.op = "add_command"
          => /\ copilot'.workflows = copilot.workflows
             /\ copilot'.recording = copilot.recording
             /\ IF copilot.recording /\ reply'.args[1] # NULL /\ reply'.args[2] # NULL
                THEN LET steps == copilot.recorded_workflow.steps
                         step == [description |-> reply'.args[2],
                                  command |-> reply'.args[2]]
                     IN copilot'.recorded_workflow.steps
                           = IF Len(steps) < GUAC_COPILOT_MAX_WORKFLOW_STEPS
                             THEN Append(steps, step) ELSE steps
                ELSE copilot'.recorded_workflow = copilot.recorded_workflow]_vars

\* C36 witness: 102 commands were given to one recording; its workflow holds
\* the first 100, and neither of the last two.
C36_Witness ==
    /\ reply.op = "add_command" /\ copilot.recording
    /\ Len(reply.recorded) = GUAC_COPILOT_MAX_WORKFLOW_STEPS + 2
    /\ reply.recorded[GUAC_COPILOT_MAX_WORKFLOW_STEPS + 1] = "ls"
    /\ reply.recorded[GUAC_COPILOT_MAX_WORKFLOW_STEPS + 2] = "pwd"
    /\ Len(copilot.recorded_workflow.steps) = GUAC_COPILOT_MAX_WORKFLOW_STEPS
    /\ copilot.recorded_workflow.steps[GUAC_COPILOT_MAX_WORKFLOW_STEPS].command
          = CommandNo(GUAC_COPILOT_MAX_WORKFLOW_STEPS)

====
